---- MODULE Spec2Model ----
(***************************************************************************)
(* A model of the score aggregation engine of shield-x: the harassment     *)
(* detector (analyze_text, keyword fallback), the deepfake detector        *)
(* (analyze_image, analyze_video_frames) and their helpers, the detection  *)
(* service that wraps them and the scan endpoints that count its verdicts. *)
(*                                                                         *)
(* The repository holds two copies of the model package:                   *)
(*   ShieldX/src/models/{harassment,deepfake}.py   (tree = "ShieldX")      *)
(*   src/models/{harassment,deepfake}.py           (tree = "root")         *)
(* A definition named after a source symbol models the ShieldX copy; the   *)
(* same name with the suffix _root models the copy of the repository root. *)
(*                                                                         *)
(* Numbers: a probability is an integer count of 1/One; every division the *)
(* code performs on the inputs enumerated here is exact at that scale.     *)
(* The code computes in binary floating point; the scores enumerated as    *)
(* inputs are ones for which every threshold comparison and every          *)
(* round(x, 4) of the code gives what exact arithmetic gives.              *)
(* Strings that the code lowercases or searches are sequences of           *)
(* one-character strings, so that lower() and the `in` substring test are  *)
(* computed character by character.                                        *)
(***************************************************************************)
EXTENDS Integers, Sequences, FiniteSets, Bags, TLC

VARIABLES
  tree,             \* which copy of the package is deployed: "ShieldX" or "root"
  active_models,    \* HarassmentDetector.active_models: the classifiers that loaded, in load order
  keyword_fallback, \* HarassmentDetector.keyword_fallback
  image_models,     \* DeepfakeModel.models: the keys of the loaded detectors, in insertion order
  load_ok,          \* the models whose from_pretrained / pipeline call succeeds at construction
  temp_files,       \* how many files written by analyze_video exist in the temporary directory
  pc,               \* "idle": no call in progress; "done": a call has returned; "video": inside the frame loop
  call,             \* the operation called last and its inputs
  result,           \* what that call returned (with the intermediate values it computed)
  video,            \* the local variables of analyze_video_frames while its loop runs
  analytics_db,     \* main.analytics_db: the counters total_scans and threats_detected
  requests          \* the scan requests the API is handling: for each slot, the handler's position

vars == <<tree, active_models, keyword_fallback, image_models, load_ok, temp_files, pc, call, result, video,
          analytics_db, requests>>

(***************************************************************************)
(* Fixed-point numbers                                                     *)
(***************************************************************************)
\* 1.0; 1/10000 is 7200 units, which halves, thirds and tenths divide
One == 7200 * 10000

\* p hundredths: Pct(35) is 0.35
Pct(p) == p * (One \div 100)

\* d ten-thousandths: Dec4(8499) is 0.8499
Dec4(d) == d * (One \div 10000)

Min(a, b) == IF a <= b THEN a ELSE b

Max(a, b) == IF a >= b THEN a ELSE b

\* round(x, 4) for x >= 0: the nearest multiple of 1/10000 (a tie goes up)
round4(x) ==
  LET u == One \div 10000
  IN  ((x + (u \div 2)) \div u) * u

RECURSIVE SeqSum(_)
SeqSum(s) == IF s = <<>> THEN 0 ELSE Head(s) + SeqSum(Tail(s))

RECURSIVE SeqMax(_)
SeqMax(s) == IF Len(s) = 1 THEN s[1] ELSE Max(Head(s), SeqMax(Tail(s)))

RECURSIVE SeqMin(_)
SeqMin(s) == IF Len(s) = 1 THEN s[1] ELSE Min(Head(s), SeqMin(Tail(s)))

(***************************************************************************)
(* Strings                                                                 *)
(***************************************************************************)
UpperCase ==
  <<"A","B","C","D","E","F","G","H","I","J","K","L","M","N","O","P","Q","R","S","T","U","V","W","X","Y","Z">>

LowerCase ==
  <<"a","b","c","d","e","f","g","h","i","j","k","l","m","n","o","p","q","r","s","t","u","v","w","x","y","z">>

\* str.lower(), one character
lower_char(c) ==
  IF \E j \in 1..Len(UpperCase) : UpperCase[j] = c
  THEN LowerCase[CHOOSE j \in 1..Len(UpperCase) : UpperCase[j] = c]
  ELSE c

\* str.lower()
lower(s) == [i \in 1..Len(s) |-> lower_char(s[i])]

\* `p in t` for two strings
substr_in(p, t) ==
  \E i \in 1..(Len(t) - Len(p) + 1) : SubSeq(t, i, i + Len(p) - 1) = p

\* `not text or not text.strip()`: the text is empty or only whitespace
is_blank(text) == \A i \in 1..Len(text) : text[i] \in {" ", "\t", "\n", "\r"}

\* [w for w in words if w in text_lower], a list comprehension over a keyword list
RECURSIVE matches_in(_, _)
matches_in(words, text_lower) ==
  IF words = <<>> THEN <<>>
  ELSE (IF substr_in(Head(words), text_lower) THEN <<Head(words)>> ELSE <<>>)
       \o matches_in(Tail(words), text_lower)

(***************************************************************************)
(* String constants                                                        *)
(***************************************************************************)
\* self.fallback_words (ShieldX/src/models/harassment.py:58-63)
fallback_words ==
  <<
    <<"k","i","l","l">>,
    <<"h","a","t","e">>,
    <<"f","o","l","l","o","w">>,
    <<"w","a","t","c","h">>,
    <<"c","o","n","t","r","o","l">>,
    <<"o","b","e","y">>,
    <<"a","t","t","a","c","k">>,
    <<"d","e","s","t","r","o","y">>,
    <<"b","i","t","c","h">>,
    <<"t","h","r","e","a","t">>,
    <<"b","l","a","c","k","m","a","i","l">>,
    <<"f","o","r","c","e">>,
    <<"h","u","r","t">>,
    <<"f","i","n","d"," ","y","o","u">>,
    <<"t","r","a","c","k"," ","y","o","u">>,
    <<"w","a","i","t","i","n","g"," ","o","u","t","s","i","d","e">>,
    <<"r","u","i","n">>,
    <<"b","r","e","a","k"," ","y","o","u">>,
    <<"d","i","e">>,
    <<"d","e","a","t","h">>,
    <<"m","u","r","d","e","r">>,
    <<"s","t","a","l","k">>,
    <<"c","r","e","e","p">>,
    <<"l","o","s","e","r">>,
    <<"w","o","r","t","h","l","e","s","s">>
  >>

\* self.intent_triggers (ShieldX/src/models/harassment.py:65-72)
intent_triggers ==
  <<
    <<"f","o","l","l","o","w"," ","y","o","u">>,
    <<"f","i","n","d"," ","y","o","u">>,
    <<"t","r","a","c","k"," ","y","o","u">>,
    <<"w","a","t","c","h"," ","y","o","u">>,
    <<"h","u","r","t"," ","y","o","u">>,
    <<"k","i","l","l"," ","y","o","u">>,
    <<"d","e","s","t","r","o","y"," ","y","o","u">>,
    <<"m","a","k","e"," ","y","o","u"," ","p","a","y">>,
    <<"n","o"," ","o","n","e"," ","w","i","l","l"," ","b","e","l","i","e","v","e"," ","y","o","u">>,
    <<"i","'","m"," ","o","u","t","s","i","d","e">>,
    <<"w","a","i","t","i","n","g"," ","f","o","r"," ","y","o","u">>,
    <<"y","o","u"," ","c","a","n","'","t"," ","e","s","c","a","p","e">>,
    <<"i"," ","k","n","o","w"," ","w","h","e","r","e"," ","y","o","u"," ","l","i","v","e">>,
    <<"i","'","l","l"," ","g","e","t"," ","y","o","u">>,
    <<"y","o","u"," ","w","i","l","l"," ","r","e","g","r","e","t">>,
    <<"y","o","u"," ","d","e","s","e","r","v","e"," ","t","h","i","s">>,
    <<"y","o","u"," ","w","i","l","l"," ","d","i","e">>,
    <<"i","'","m"," ","w","a","t","c","h","i","n","g">>,
    <<"i"," ","s","e","e"," ","y","o","u">>,
    <<"f","o","u","n","d"," ","y","o","u">>
  >>

\* critical_words (ShieldX/src/models/harassment.py:175)
critical_words ==
  <<
    <<"k","i","l","l">>,
    <<"d","i","e">>,
    <<"d","e","a","t","h">>,
    <<"m","u","r","d","e","r">>,
    <<"h","u","r","t">>,
    <<"d","e","s","t","r","o","y">>,
    <<"a","t","t","a","c","k">>
  >>

\* self.category_map["threat"] (ShieldX/src/models/harassment.py:74-85)
category_map_threat ==
  <<
    <<"k","i","l","l">>,
    <<"h","u","r","t">>,
    <<"d","e","s","t","r","o","y">>,
    <<"a","t","t","a","c","k">>,
    <<"r","e","v","e","n","g","e">>,
    <<"m","a","k","e"," ","y","o","u"," ","p","a","y">>,
    <<"y","o","u"," ","w","i","l","l"," ","r","e","g","r","e","t">>,
    <<"d","i","e">>,
    <<"d","e","a","t","h">>,
    <<"m","u","r","d","e","r">>,
    <<"h","a","r","m">>
  >>

\* self.category_map["stalking"] (ShieldX/src/models/harassment.py:74-85)
category_map_stalking ==
  <<
    <<"f","o","l","l","o","w">>,
    <<"f","i","n","d"," ","y","o","u">>,
    <<"t","r","a","c","k">>,
    <<"w","a","t","c","h">>,
    <<"w","a","i","t","i","n","g"," ","o","u","t","s","i","d","e">>,
    <<"o","u","t","s","i","d","e"," ","y","o","u","r"," ","h","o","u","s","e">>,
    <<"i"," ","s","e","e"," ","y","o","u">>,
    <<"i","'","m"," ","w","a","t","c","h","i","n","g">>,
    <<"f","o","u","n","d"," ","y","o","u">>
  >>

\* self.category_map["manipulation"] (ShieldX/src/models/harassment.py:74-85)
category_map_manipulation ==
  <<
    <<"c","o","n","t","r","o","l">>,
    <<"o","b","e","y">>,
    <<"n","o"," ","o","n","e"," ","w","i","l","l"," ","b","e","l","i","e","v","e"," ","y","o","u">>,
    <<"y","o","u"," ","o","w","e"," ","m","e">>,
    <<"y","o","u"," ","c","a","n","'","t"," ","e","s","c","a","p","e">>,
    <<"y","o","u","'","r","e"," ","m","i","n","e">>,
    <<"y","o","u"," ","b","e","l","o","n","g"," ","t","o"," ","m","e">>
  >>

\* self.category_map["harassment"] (ShieldX/src/models/harassment.py:74-85)
category_map_harassment ==
  <<
    <<"b","i","t","c","h">>,
    <<"h","a","t","e">>,
    <<"w","o","r","t","h","l","e","s","s">>,
    <<"i","d","i","o","t">>,
    <<"s","t","u","p","i","d">>,
    <<"p","a","t","h","e","t","i","c">>,
    <<"t","r","a","s","h">>,
    <<"l","o","s","e","r">>,
    <<"u","g","l","y">>,
    <<"d","i","s","g","u","s","t","i","n","g">>
  >>

\* self.category_map["coercion"] (ShieldX/src/models/harassment.py:74-85)
category_map_coercion ==
  <<
    <<"b","l","a","c","k","m","a","i","l">>,
    <<"f","o","r","c","e">>,
    <<"y","o","u"," ","m","u","s","t">>,
    <<"y","o","u"," ","h","a","v","e"," ","t","o">>,
    <<"s","u","b","m","i","t">>,
    <<"d","o"," ","w","h","a","t"," ","i"," ","s","a","y">>,
    <<"o","r"," ","e","l","s","e">>
  >>

\* self.fallback_words (src/models/harassment.py:52-56)
fallback_words_root ==
  <<
    <<"k","i","l","l">>,
    <<"h","a","t","e">>,
    <<"f","o","l","l","o","w">>,
    <<"w","a","t","c","h">>,
    <<"c","o","n","t","r","o","l">>,
    <<"o","b","e","y">>,
    <<"a","t","t","a","c","k">>,
    <<"d","e","s","t","r","o","y">>,
    <<"b","i","t","c","h">>,
    <<"t","h","r","e","a","t">>,
    <<"b","l","a","c","k","m","a","i","l">>,
    <<"f","o","r","c","e">>,
    <<"h","u","r","t">>,
    <<"f","i","n","d"," ","y","o","u">>,
    <<"t","r","a","c","k"," ","y","o","u">>,
    <<"w","a","i","t","i","n","g"," ","o","u","t","s","i","d","e">>,
    <<"r","u","i","n">>,
    <<"b","r","e","a","k"," ","y","o","u">>
  >>

\* self.intent_triggers (src/models/harassment.py:58-64); ^ stands for the typographic apostrophe U+2019 of that file
intent_triggers_root ==
  <<
    <<"f","o","l","l","o","w"," ","y","o","u">>,
    <<"f","i","n","d"," ","y","o","u">>,
    <<"t","r","a","c","k"," ","y","o","u">>,
    <<"w","a","t","c","h"," ","y","o","u">>,
    <<"h","u","r","t"," ","y","o","u">>,
    <<"k","i","l","l"," ","y","o","u">>,
    <<"d","e","s","t","r","o","y"," ","y","o","u">>,
    <<"m","a","k","e"," ","y","o","u"," ","p","a","y">>,
    <<"n","o"," ","o","n","e"," ","w","i","l","l"," ","b","e","l","i","e","v","e"," ","y","o","u">>,
    <<"i","^","m"," ","o","u","t","s","i","d","e">>,
    <<"w","a","i","t","i","n","g"," ","f","o","r"," ","y","o","u">>,
    <<"y","o","u"," ","c","a","n","'","t"," ","e","s","c","a","p","e">>,
    <<"i"," ","k","n","o","w"," ","w","h","e","r","e"," ","y","o","u"," ","l","i","v","e">>,
    <<"i","^","l","l"," ","g","e","t"," ","y","o","u">>,
    <<"y","o","u"," ","w","i","l","l"," ","r","e","g","r","e","t">>,
    <<"y","o","u"," ","d","e","s","e","r","v","e"," ","t","h","i","s">>,
    <<"y","o","u"," ","w","i","l","l"," ","d","i","e">>
  >>

\* self.category_map["threat"] (src/models/harassment.py:66-72)
category_map_root_threat ==
  <<
    <<"k","i","l","l">>,
    <<"h","u","r","t">>,
    <<"d","e","s","t","r","o","y">>,
    <<"a","t","t","a","c","k">>,
    <<"r","e","v","e","n","g","e">>,
    <<"m","a","k","e"," ","y","o","u"," ","p","a","y">>,
    <<"y","o","u"," ","w","i","l","l"," ","r","e","g","r","e","t">>,
    <<"d","i","e">>
  >>

\* self.category_map["stalking"] (src/models/harassment.py:66-72)
category_map_root_stalking ==
  <<
    <<"f","o","l","l","o","w">>,
    <<"f","i","n","d"," ","y","o","u">>,
    <<"t","r","a","c","k">>,
    <<"w","a","t","c","h">>,
    <<"w","a","i","t","i","n","g"," ","o","u","t","s","i","d","e">>,
    <<"o","u","t","s","i","d","e"," ","y","o","u","r"," ","h","o","u","s","e">>
  >>

\* self.category_map["manipulation"] (src/models/harassment.py:66-72)
category_map_root_manipulation ==
  <<
    <<"c","o","n","t","r","o","l">>,
    <<"o","b","e","y">>,
    <<"n","o"," ","o","n","e"," ","w","i","l","l"," ","b","e","l","i","e","v","e"," ","y","o","u">>,
    <<"y","o","u"," ","o","w","e"," ","m","e">>,
    <<"y","o","u"," ","c","a","n","'","t"," ","e","s","c","a","p","e">>
  >>

\* self.category_map["harassment"] (src/models/harassment.py:66-72)
category_map_root_harassment ==
  <<
    <<"b","i","t","c","h">>,
    <<"h","a","t","e">>,
    <<"w","o","r","t","h","l","e","s","s">>,
    <<"i","d","i","o","t">>,
    <<"s","t","u","p","i","d">>,
    <<"p","a","t","h","e","t","i","c">>,
    <<"t","r","a","s","h">>
  >>

\* self.category_map["coercion"] (src/models/harassment.py:66-72)
category_map_root_coercion ==
  <<
    <<"b","l","a","c","k","m","a","i","l">>,
    <<"f","o","r","c","e">>,
    <<"y","o","u"," ","m","u","s","t">>,
    <<"y","o","u"," ","h","a","v","e"," ","t","o">>,
    <<"s","u","b","m","i","t">>
  >>

\* the empty text
T_empty ==
  <<>>

\* a whitespace-only text
T_blank ==
  <<" "," ">>

\* no keyword, no intent phrase
T_benign ==
  <<"G","o","o","d"," ","d","a","y">>

\* the scenario text of the specification, section 8
T_scenario ==
  <<"I"," ","k","n","o","w"," ","w","h","e","r","e"," ","y","o","u"," ","l","i","v","e"," ","a","n","d"," ","I"," ","w","i","l","l"," ","f","i","n","d"," ","y","o","u">>

\* a harassment keyword that is neither critical nor part of an intent phrase
T_hate ==
  <<"i"," ","h","a","t","e"," ","i","t">>

\* an intent phrase that holds no harassment keyword
T_regret ==
  <<"Y","o","u"," ","w","i","l","l"," ","r","e","g","r","e","t">>

\* a critical keyword alone, in upper case
T_kill ==
  <<"K","I","L","L">>

\* three intent phrases, no harassment keyword
T_three ==
  <<"i"," ","s","e","e"," ","y","o","u",","," ","f","o","u","n","d"," ","y","o","u",","," ","m","a","k","e"," ","y","o","u"," ","p","a","y">>

\* four harassment keywords and three intent phrases
T_many ==
  <<"k","i","l","l"," ","y","o","u"," ","h","u","r","t"," ","y","o","u"," ","d","e","s","t","r","o","y"," ","y","o","u"," ","a","t","t","a","c","k">>

\* five harassment keywords, no intent phrase
T_five ==
  <<"h","a","t","e"," ","w","a","t","c","h"," ","o","b","e","y"," ","r","u","i","n"," ","f","o","r","c","e">>

\* one threat keyword and two stalking keywords
T_track ==
  <<"h","u","r","t",","," ","o","r"," ","f","o","l","l","o","w"," ","a","n","d"," ","t","r","a","c","k"," ","y","o","u">>

\* the classifier label "toxic"
L_toxic ==
  <<"t","o","x","i","c">>

\* the classifier label "TOXIC"
L_TOXIC ==
  <<"T","O","X","I","C">>

\* the classifier label "label_1"
L_label_1 ==
  <<"l","a","b","e","l","_","1">>

\* the classifier label "LABEL_1"
L_LABEL_1 ==
  <<"L","A","B","E","L","_","1">>

\* the classifier label "label_0"
L_label_0 ==
  <<"l","a","b","e","l","_","0">>

\* the classifier label "LABEL_0"
L_LABEL_0 ==
  <<"L","A","B","E","L","_","0">>

\* the classifier label "toxicity"
L_toxicity ==
  <<"t","o","x","i","c","i","t","y">>

\* the classifier label "non_toxic"
L_non_toxic ==
  <<"n","o","n","_","t","o","x","i","c">>

\* the classifier label "neutral"
L_neutral ==
  <<"n","e","u","t","r","a","l">>

\* the classifier label "insult"
L_insult ==
  <<"i","n","s","u","l","t">>

\* fake_keywords of _normalize_label (ShieldX/src/models/deepfake.py:115)
fake_keywords ==
  <<
    <<"f","a","k","e">>,
    <<"a","i">>,
    <<"a","r","t","i","f","i","c","i","a","l">>,
    <<"g","e","n","e","r","a","t","e","d">>,
    <<"s","y","n","t","h","e","t","i","c">>,
    <<"f","o","r","g","e","d">>,
    <<"m","a","n","i","p","u","l","a","t","e","d">>,
    <<"1">>
  >>

\* real_keywords of _normalize_label (ShieldX/src/models/deepfake.py:116)
real_keywords ==
  <<
    <<"r","e","a","l">>,
    <<"a","u","t","h","e","n","t","i","c">>,
    <<"g","e","n","u","i","n","e">>,
    <<"o","r","i","g","i","n","a","l">>,
    <<"h","u","m","a","n">>,
    <<"0">>
  >>

\* the fake words of _interpret_prediction (src/models/deepfake.py:155)
fake_words_root ==
  <<
    <<"a","r","t","i","f","i","c","i","a","l">>,
    <<"a","i">>,
    <<"s","y","n","t","h","e","t","i","c">>,
    <<"f","a","k","e">>,
    <<"g","e","n","e","r","a","t","e","d">>
  >>

\* the real words of _interpret_prediction (src/models/deepfake.py:157)
real_words_root ==
  <<
    <<"r","e","a","l">>,
    <<"a","u","t","h","e","n","t","i","c">>,
    <<"n","a","t","u","r","a","l">>,
    <<"g","e","n","u","i","n","e">>,
    <<"h","u","m","a","n">>
  >>

\* the string "0"
S_0 ==
  <<"0">>

\* the string "1"
S_1 ==
  <<"1">>

\* the string "2"
S_2 ==
  <<"2">>

\* the string "real"
S_real ==
  <<"r","e","a","l">>

\* the string "fake"
S_fake ==
  <<"f","a","k","e">>

\* the string "artificial"
S_artificial ==
  <<"a","r","t","i","f","i","c","i","a","l">>

\* the string "human"
S_human ==
  <<"h","u","m","a","n">>

\* the string "unknown"
S_unknown ==
  <<"u","n","k","n","o","w","n">>

\* the string "Fake"
S_Fake ==
  <<"F","a","k","e">>

\* the string "REAL"
S_REAL ==
  <<"R","E","A","L">>

\* the string "natural"
S_natural ==
  <<"n","a","t","u","r","a","l">>

\* the string "forged"
S_forged ==
  <<"f","o","r","g","e","d">>

\* the string "cat"
S_cat ==
  <<"c","a","t">>

\* the string "plain"
S_plain ==
  <<"p","l","a","i","n">>

\* the string "Artificial"
S_Artificial ==
  <<"A","r","t","i","f","i","c","i","a","l">>

\* the triggers of has_intent_threat (src/services/detection.py:288-292)
service_intent_triggers ==
  <<
    <<"k","n","o","w"," ","w","h","e","r","e"," ","y","o","u"," ","l","i","v","e">>,
    <<"i","'","m"," ","w","a","t","c","h","i","n","g">>,
    <<"w","a","t","c","h","i","n","g"," ","y","o","u">>,
    <<"f","i","n","d"," ","y","o","u">>,
    <<"t","r","a","c","k"," ","y","o","u">>,
    <<"f","o","l","l","o","w"," ","y","o","u">>,
    <<"o","r"," ","e","l","s","e">>,
    <<"d","o"," ","w","h","a","t"," ","i"," ","s","a","y">>,
    <<"y","o","u"," ","m","u","s","t">>,
    <<"y","o","u"," ","h","a","v","e"," ","t","o">>
  >>

\* the words of the category 'stalking' (src/services/detection.py:326)
service_stalking_words ==
  <<
    <<"k","n","o","w"," ","w","h","e","r","e"," ","y","o","u"," ","l","i","v","e">>,
    <<"f","i","n","d"," ","y","o","u">>,
    <<"w","a","t","c","h","i","n","g">>,
    <<"f","o","l","l","o","w">>
  >>

\* the words of the category 'threat' (src/services/detection.py:328)
service_threat_words ==
  <<
    <<"k","i","l","l">>,
    <<"h","u","r","t">>,
    <<"d","e","s","t","r","o","y">>,
    <<"g","o","i","n","g"," ","t","o">>
  >>

\* the words of the category 'coercion' (src/services/detection.py:331)
service_coercion_words ==
  <<
    <<"o","r"," ","e","l","s","e">>,
    <<"d","o"," ","w","h","a","t"," ","i"," ","s","a","y">>,
    <<"y","o","u"," ","m","u","s","t">>,
    <<"f","o","r","c","e">>
  >>

(***************************************************************************)
(* HarassmentDetector, ShieldX/src/models/harassment.py                    *)
(***************************************************************************)
\* model_configs: the classifiers __init__ tries to load, in this order
model_configs == <<"toxic_bert", "roberta_toxicity", "deberta_toxic">>

\* self.category_map, in insertion order
category_map ==
  << [name |-> "threat",       keywords |-> category_map_threat],
     [name |-> "stalking",     keywords |-> category_map_stalking],
     [name |-> "manipulation", keywords |-> category_map_manipulation],
     [name |-> "harassment",   keywords |-> category_map_harassment],
     [name |-> "coercion",     keywords |-> category_map_coercion] >>

\* the subsequences of model_configs: what self.active_models can be after __init__,
\* where each load succeeds or raises on its own
LoadOrders(configs) ==
  { s \in UNION { [1..n -> 1..Len(configs)] : n \in 0..Len(configs) } :
      \A i \in 1..Len(s) : \A j \in 1..Len(s) : i < j => s[i] < s[j] }

loaded_names(configs, s) == [i \in 1..Len(s) |-> configs[s[i]]]

Range(s) == { s[i] : i \in 1..Len(s) }

\* {r['label'].lower(): r['score'] for r in outputs[0]}: a later pair replaces an earlier one
label_scores_of(pairs) ==
  [ k \in { lower(pairs[i].label) : i \in 1..Len(pairs) } |->
      LET last == CHOOSE i \in 1..Len(pairs) :
                    /\ lower(pairs[i].label) = k
                    /\ \A j \in (i + 1)..Len(pairs) : lower(pairs[j].label) # k
      IN  pairs[last].score ]

RECURSIVE SumValues(_, _)
SumValues(f, keys) ==
  IF keys = {} THEN 0
  ELSE LET k == CHOOSE x \in keys : TRUE
       IN  f[k] + SumValues(f, keys \ {k})

\* HarassmentDetector._extract_toxic_score
_extract_toxic_score(label_scores) ==
  IF L_toxic \in DOMAIN label_scores THEN label_scores[L_toxic]
  ELSE IF L_label_1 \in DOMAIN label_scores THEN label_scores[L_label_1]
  ELSE IF L_toxicity \in DOMAIN label_scores THEN label_scores[L_toxicity]
  ELSE IF L_non_toxic \in DOMAIN label_scores THEN One - label_scores[L_non_toxic]
  ELSE IF L_label_0 \in DOMAIN label_scores THEN One - label_scores[L_label_0]
  ELSE IF DOMAIN label_scores # {}
       THEN SumValues(label_scores, DOMAIN label_scores) \div Cardinality(DOMAIN label_scores)
       ELSE 0

\* HarassmentDetector._has_critical_keywords
_has_critical_keywords(text_lower) ==
  \E i \in 1..Len(critical_words) : substr_in(critical_words[i], text_lower)

\* _classify_severity with the test `score > 0.85`
_classify_severity_gt(score) ==
  IF score > Pct(85) THEN "critical"
  ELSE IF score >= Pct(65) THEN "high"
  ELSE IF score >= Pct(45) THEN "medium"
  ELSE IF score >= Pct(25) THEN "low"
  ELSE "safe"

\* HarassmentDetector._classify_severity (the root copy, src/models/harassment.py:172-181, is the same)
_classify_severity(score) ==
  IF score >= Pct(85) THEN "critical"
  ELSE IF score >= Pct(65) THEN "high"
  ELSE IF score >= Pct(45) THEN "medium"
  ELSE IF score >= Pct(25) THEN "low"
  ELSE "safe"

\* sum(1 for k in keywords if k in text_lower)
match_count(keywords, text_lower) == Len(matches_in(keywords, text_lower))

\* HarassmentDetector._detect_category: max() keeps the first key that reaches the largest count
_detect_category(text_lower) ==
  LET counts == [i \in 1..Len(category_map) |-> match_count(category_map[i].keywords, text_lower)]
      scored == { i \in 1..Len(category_map) : counts[i] > 0 }
  IN  IF scored # {}
      THEN LET best == CHOOSE i \in scored :
                         /\ \A j \in scored : counts[j] <= counts[i]
                         /\ \A j \in scored : j < i => counts[j] < counts[i]
           IN  category_map[best].name
      ELSE "general"

\* HarassmentDetector._keyword_fallback_analysis
_keyword_fallback_analysis(text) ==
  LET text_lower    == lower(text)
      found         == matches_in(fallback_words, text_lower)
      intent_found  == matches_in(intent_triggers, text_lower)
      base_score    == IF found # <<>> THEN Pct(30) ELSE 0
      keyword_boost == Min(Pct(40), Pct(10) * Len(found))
      intent_boost  == Min(Pct(30), Pct(15) * Len(intent_found))
      score         == Min(Pct(95), base_score + keyword_boost + intent_boost)
  IN  [ is_harassment |-> (found # <<>> \/ intent_found # <<>>),
        confidence    |-> round4(score),
        severity      |-> _classify_severity(score),
        category      |-> _detect_category(text_lower),
        method        |-> "keyword_fallback",
        locals        |-> [ found |-> found, intent_found |-> intent_found,
                            base_score |-> base_score, keyword_boost |-> keyword_boost,
                            intent_boost |-> intent_boost, score |-> score ] ]

\* collect_scores without the try around the call: the first classifier that raises ends
\* the loop
RECURSIVE collect_scores_abort(_, _)
collect_scores_abort(names, outs) ==
  IF names = <<>> THEN <<>>
  ELSE LET o == outs[Head(names)]
       IN  IF o.kind = "raise" THEN <<>>
           ELSE (IF o.kind = "ok"
                 THEN <<_extract_toxic_score(label_scores_of(o.pairs))>>
                 ELSE <<>>)
                \o collect_scores_abort(Tail(names), outs)

\* the loop over self.models of analyze_text: the toxic score of every classifier that
\* returned a non-empty list; one that raises, or returns nothing, appends nothing
RECURSIVE collect_scores(_, _)
collect_scores(names, outs) ==
  IF names = <<>> THEN <<>>
  ELSE LET o == outs[Head(names)]
       IN  (IF o.kind = "ok"
            THEN <<_extract_toxic_score(label_scores_of(o.pairs))>>
            ELSE <<>>)
           \o collect_scores(Tail(names), outs)

\* sum(ai_scores) adds the scores from left to right in double precision. Among the
\* scores drawn here the outcome of every comparison and rounding of analyze_text is the
\* one of the exact sum, except for 0.6, 0.55, 0.2 in an order that adds 0.2 last: there
\* the double sum is 1.3499999999999999 where 0.2 added earlier gives 1.35
SumFallsShort ==
  { << Pct(60), Pct(55), Pct(20) >>, << Pct(55), Pct(60), Pct(20) >> }

\* float(sum(ai_scores) / len(ai_scores)); a sum that falls short of the exact one is kept
\* as the number one unit of the scale below it
float_mean(ai_scores) ==
  (IF ai_scores \in SumFallsShort THEN SeqSum(ai_scores) - 1 ELSE SeqSum(ai_scores))
    \div Len(ai_scores)

\* contextual_result with the two steps exchanged: smoothing first, intent boost second
contextual_result_smooth_first(text_lower, ai_scores, names) ==
  LET mean            == float_mean(ai_scores)
      matched_intents == matches_in(intent_triggers, text_lower)
      intent_boost    == IF matched_intents # <<>>
                         THEN Min(Pct(35), Pct(15) * Len(matched_intents))
                         ELSE 0
      variance        == SeqMax(ai_scores) - SeqMin(ai_scores)
      smoothed        == Len(ai_scores) > 1 /\ variance > Pct(40)
      boosted         == IF smoothed THEN (mean * 9) \div 10 ELSE mean
      avg_toxic       == IF matched_intents # <<>> THEN Min(One, boosted + intent_boost) ELSE boosted
  IN  [ is_harassment |-> \/ avg_toxic >= Pct(35)
                          \/ matched_intents # <<>>
                          \/ _has_critical_keywords(text_lower),
        confidence    |-> round4(avg_toxic),
        severity      |-> _classify_severity(avg_toxic),
        category      |-> _detect_category(text_lower),
        method        |-> "contextual_ai",
        models_used   |-> names,
        locals        |-> [ ai_scores |-> ai_scores, mean |-> mean,
                            matched_intents |-> matched_intents,
                            intent_boost |-> intent_boost, boosted |-> boosted,
                            smoothed |-> smoothed, avg_toxic |-> avg_toxic ] ]

\* contextual_result with the smoothing test `variance >= 0.4`
contextual_result_ge(text_lower, ai_scores, names) ==
  LET mean            == float_mean(ai_scores)
      matched_intents == matches_in(intent_triggers, text_lower)
      intent_boost    == IF matched_intents # <<>>
                         THEN Min(Pct(35), Pct(15) * Len(matched_intents))
                         ELSE 0
      boosted         == IF matched_intents # <<>> THEN Min(One, mean + intent_boost) ELSE mean
      variance        == SeqMax(ai_scores) - SeqMin(ai_scores)
      smoothed        == Len(ai_scores) > 1 /\ variance >= Pct(40)
      avg_toxic       == IF smoothed THEN (boosted * 9) \div 10 ELSE boosted
  IN  [ is_harassment |-> \/ avg_toxic >= Pct(35)
                          \/ matched_intents # <<>>
                          \/ _has_critical_keywords(text_lower),
        confidence    |-> round4(avg_toxic),
        severity      |-> _classify_severity(avg_toxic),
        category      |-> _detect_category(text_lower),
        method        |-> "contextual_ai",
        models_used   |-> names,
        locals        |-> [ ai_scores |-> ai_scores, mean |-> mean,
                            matched_intents |-> matched_intents,
                            intent_boost |-> intent_boost, boosted |-> boosted,
                            smoothed |-> smoothed, avg_toxic |-> avg_toxic ] ]

\* the contextual branch of analyze_text, taken when ai_scores is not empty
contextual_result(text_lower, ai_scores, names) ==
  LET mean            == float_mean(ai_scores)
      matched_intents == matches_in(intent_triggers, text_lower)
      intent_boost    == IF matched_intents # <<>>
                         THEN Min(Pct(35), Pct(15) * Len(matched_intents))
                         ELSE 0
      boosted         == IF matched_intents # <<>> THEN Min(One, mean + intent_boost) ELSE mean
      variance        == SeqMax(ai_scores) - SeqMin(ai_scores)
      smoothed        == Len(ai_scores) > 1 /\ variance > Pct(40)
      avg_toxic       == IF smoothed THEN (boosted * 9) \div 10 ELSE boosted
  IN  [ is_harassment |-> \/ avg_toxic >= Pct(35)
                          \/ matched_intents # <<>>
                          \/ _has_critical_keywords(text_lower),
        confidence    |-> round4(avg_toxic),
        severity      |-> _classify_severity(avg_toxic),
        category      |-> _detect_category(text_lower),
        method        |-> "contextual_ai",
        models_used   |-> names,
        locals        |-> [ ai_scores |-> ai_scores, mean |-> mean,
                            matched_intents |-> matched_intents,
                            intent_boost |-> intent_boost, boosted |-> boosted,
                            smoothed |-> smoothed, avg_toxic |-> avg_toxic ] ]

\* what a call of analyze_text did besides computing its result: the classifiers it called
\* (the loop calls every loaded one, a raise is caught inside the loop) and whether it
\* lowercased the text and searched it for keywords
call_trace(fallback, names, text) ==
  IF is_blank(text)
  THEN [ invoked |-> << >>, scanned |-> FALSE ]
  ELSE [ invoked |-> IF fallback THEN << >> ELSE names, scanned |-> TRUE ]

\* HarassmentDetector.analyze_text
analyze_text(fallback, names, text, outs) ==
  IF is_blank(text)
  THEN [ is_harassment |-> FALSE, confidence |-> 0, severity |-> "safe",
         category |-> "empty", method |-> "none", error |-> "Empty text input",
         trace |-> call_trace(fallback, names, text) ]
  ELSE LET ai_scores == IF fallback THEN <<>> ELSE collect_scores(names, outs)
       IN  ( IF ~fallback /\ ai_scores # <<>>
             THEN contextual_result(lower(text), ai_scores, names)
             ELSE _keyword_fallback_analysis(text) )
           @@ [ trace |-> call_trace(fallback, names, text) ]


(***************************************************************************)
(* HarassmentDetector, src/models/harassment.py (the copy of the root)     *)
(***************************************************************************)
\* self.category_map of the root copy, in insertion order
category_map_root ==
  << [name |-> "threat",       keywords |-> category_map_root_threat],
     [name |-> "stalking",     keywords |-> category_map_root_stalking],
     [name |-> "manipulation", keywords |-> category_map_root_manipulation],
     [name |-> "harassment",   keywords |-> category_map_root_harassment],
     [name |-> "coercion",     keywords |-> category_map_root_coercion] >>

\* dict.get(key, 0.0)
dict_get(d, key) == IF key \in DOMAIN d THEN d[key] ELSE 0

\* the toxic_score expression of the root analyze_text: `a or b or c` yields the first
\* operand that is not 0.0, and the last one otherwise; the keys are lowercased, the
\* second lookup asks for "LABEL_1"
toxic_score_root(label_scores) ==
  LET a == dict_get(label_scores, L_toxic)
      b == dict_get(label_scores, L_LABEL_1)
      c == One - dict_get(label_scores, L_non_toxic)
  IN  IF a # 0 THEN a ELSE IF b # 0 THEN b ELSE c

\* any(k in text_lower for k in words)
any_in(words, text_lower) == \E i \in 1..Len(words) : substr_in(words[i], text_lower)

\* HarassmentDetector._detect_category of the root copy: the first category with a match
_detect_category_root(text_lower) ==
  IF \E i \in 1..Len(category_map_root) : any_in(category_map_root[i].keywords, text_lower)
  THEN category_map_root[
         CHOOSE i \in 1..Len(category_map_root) :
           /\ any_in(category_map_root[i].keywords, text_lower)
           /\ \A j \in 1..(i - 1) : ~any_in(category_map_root[j].keywords, text_lower) ].name
  ELSE "general"

\* HarassmentDetector._keyword_fallback_analysis of the root copy
_keyword_fallback_analysis_root(text) ==
  LET text_lower == lower(text)
      found      == matches_in(fallback_words_root, text_lower)
      score      == IF found # <<>> THEN Min(Pct(95), Pct(30) + Pct(10) * Len(found)) ELSE 0
  IN  [ is_harassment |-> (found # <<>>),
        confidence    |-> round4(score),
        severity      |-> _classify_severity(score),
        category      |-> _detect_category_root(text_lower),
        method        |-> "keyword_fallback",
        locals        |-> [ found |-> found, score |-> score ] ]

\* the loop over self.models of the root analyze_text
RECURSIVE collect_scores_root(_, _)
collect_scores_root(names, outs) ==
  IF names = <<>> THEN <<>>
  ELSE LET o == outs[Head(names)]
       IN  (IF o.kind = "ok"
            THEN <<toxic_score_root(label_scores_of(o.pairs))>>
            ELSE <<>>)
           \o collect_scores_root(Tail(names), outs)

\* the contextual branch of the root analyze_text
contextual_result_root(text_lower, ai_scores, names) ==
  LET mean      == float_mean(ai_scores)
      triggered == any_in(intent_triggers_root, text_lower)
      boosted   == IF triggered THEN Min(One, mean + Pct(35)) ELSE mean
      variance  == SeqMax(ai_scores) - SeqMin(ai_scores)
      smoothed  == Len(ai_scores) > 1 /\ variance > Pct(40)
      avg_toxic == IF smoothed THEN (boosted * 9) \div 10 ELSE boosted
  IN  [ is_harassment |-> \/ avg_toxic >= Pct(35)
                          \/ any_in(intent_triggers_root, text_lower)
                          \/ any_in(fallback_words_root, text_lower),
        confidence    |-> round4(avg_toxic),
        severity      |-> _classify_severity(avg_toxic),
        category      |-> _detect_category_root(text_lower),
        method        |-> "contextual_ai",
        models_used   |-> names,
        locals        |-> [ ai_scores |-> ai_scores, mean |-> mean, boosted |-> boosted,
                            smoothed |-> smoothed, avg_toxic |-> avg_toxic ] ]

\* HarassmentDetector.analyze_text of the root copy
analyze_text_root(fallback, names, text, outs) ==
  IF is_blank(text)
  THEN [ error |-> "Empty text input", trace |-> call_trace(fallback, names, text) ]
  ELSE LET ai_scores == IF fallback THEN <<>> ELSE collect_scores_root(names, outs)
       IN  ( IF ~fallback /\ ai_scores # <<>>
             THEN contextual_result_root(lower(text), ai_scores, names)
             ELSE _keyword_fallback_analysis_root(text) )
           @@ [ trace |-> call_trace(fallback, names, text) ]


(***************************************************************************)
(* DeepfakeModel, ShieldX/src/models/deepfake.py                           *)
(***************************************************************************)
\* a * b for two probabilities, b a multiple of 1/10000
Mul(a, b) ==
  LET U == 10000
      V == One \div 10000
  IN  (a \div U) * (b \div V) + ((a % U) * (b \div V)) \div U

\* a Python exception leaving a function
Raise(msg) == [exception |-> msg]

Raised(r) == "exception" \in DOMAIN r

\* _error_response with the confidence of an undecided frame
_error_response_half(error_msg) ==
  [ prediction |-> "Error", confidence |-> Pct(50), score |-> Pct(50), error |-> error_msg,
    model |-> "none" ]

\* DeepfakeModel._error_response
_error_response(error_msg) ==
  [ prediction |-> "Error", confidence |-> 0, score |-> 0, error |-> error_msg, model |-> "none" ]

\* _load_ensemble_models: the model paths in the order they are loaded
models_to_load == <<"umm-maybe/AI-image-detector", "dima806/deepfake_vs_real_image_detection">>

\* model_name.split('/')[-1]
short_name(model_name) ==
  IF model_name = "umm-maybe/AI-image-detector" THEN "AI-image-detector"
  ELSE IF model_name = "dima806/deepfake_vs_real_image_detection" THEN "deepfake_vs_real_image_detection"
  ELSE model_name

\* _normalize_label with the 0.5 factor applied to a keyword match as well
_normalize_label_penalize_keyword(raw_label) ==
  LET label_lower == lower(raw_label)
  IN  IF \E i \in 1..Len(fake_keywords) : substr_in(fake_keywords[i], label_lower)
      THEN [prediction |-> "Fake", adjustment |-> One \div 2]
      ELSE IF \E i \in 1..Len(real_keywords) : substr_in(real_keywords[i], label_lower)
      THEN [prediction |-> "Real", adjustment |-> One \div 2]
      ELSE [prediction |-> "Uncertain", adjustment |-> One \div 2]

\* DeepfakeModel._normalize_label: the category and the factor applied to the top probability
_normalize_label(raw_label) ==
  LET label_lower == lower(raw_label)
  IN  IF \E i \in 1..Len(fake_keywords) : substr_in(fake_keywords[i], label_lower)
      THEN [prediction |-> "Fake", adjustment |-> One]
      ELSE IF \E i \in 1..Len(real_keywords) : substr_in(real_keywords[i], label_lower)
      THEN [prediction |-> "Real", adjustment |-> One]
      ELSE [prediction |-> "Uncertain", adjustment |-> One \div 2]

\* the body of the per-model try of analyze_image: one entry of model_results
model_result(model_name, o) ==
  LET raw_label == IF o.labelled THEN o.label ELSE S_unknown
      norm      == _normalize_label(raw_label)
  IN  [ model      |-> short_name(model_name),
        prediction |-> norm.prediction,
        confidence |-> Mul(o.top_prob, norm.adjustment),
        raw_label  |-> raw_label,
        top_prob   |-> o.top_prob ]

\* the loop over self.models of analyze_image: a model whose inference raises adds nothing
RECURSIVE collect_results(_, _)
collect_results(names, outs) ==
  IF names = <<>> THEN <<>>
  ELSE (IF outs[Head(names)].kind = "ok"
        THEN <<model_result(Head(names), outs[Head(names)])>>
        ELSE <<>>)
       \o collect_results(Tail(names), outs)

\* sum(1 for r in model_results if r["prediction"] == "Fake")
RECURSIVE count_fake(_)
count_fake(rs) ==
  IF rs = <<>> THEN 0
  ELSE (IF Head(rs).prediction = "Fake" THEN 1 ELSE 0) + count_fake(Tail(rs))

\* aggregate with the majority test `fake_votes >= len(model_results) / 2`
aggregate_tie_is_fake(model_results) ==
  IF Len(model_results) > 1
  THEN LET fake_votes     == count_fake(model_results)
           avg_confidence == SeqSum([i \in 1..Len(model_results) |-> model_results[i].confidence])
                               \div Len(model_results)
       IN  [ final_prediction |->
               IF 2 * fake_votes >= Len(model_results) THEN "Fake"
               ELSE IF fake_votes = 0 THEN "Real"
               ELSE IF avg_confidence > Pct(60) THEN "Fake" ELSE "Uncertain",
             final_confidence |-> avg_confidence,
             method           |-> "ensemble" ]
  ELSE [ final_prediction |-> model_results[1].prediction,
         final_confidence |-> model_results[1].confidence,
         method           |-> "single model" ]

\* the aggregation step of analyze_image ("Aggregate results")
aggregate(model_results) ==
  IF Len(model_results) > 1
  THEN LET fake_votes     == count_fake(model_results)
           avg_confidence == SeqSum([i \in 1..Len(model_results) |-> model_results[i].confidence])
                               \div Len(model_results)
       IN  [ final_prediction |->
               IF 2 * fake_votes > Len(model_results) THEN "Fake"
               ELSE IF fake_votes = 0 THEN "Real"
               ELSE IF avg_confidence > Pct(60) THEN "Fake" ELSE "Uncertain",
             final_confidence |-> avg_confidence,
             method           |-> "ensemble" ]
  ELSE [ final_prediction |-> model_results[1].prediction,
         final_confidence |-> model_results[1].confidence,
         method           |-> "single model" ]

\* the confidence_level expression of analyze_image
confidence_level(final_confidence) ==
  IF final_confidence >= Pct(80) THEN "High"
  ELSE IF final_confidence >= Pct(60) THEN "Medium"
  ELSE "Low"

\* the outer try block of analyze_image: the result it returns, or the exception that leaves it
analyze_image_try(names, decodable, outs) ==
  IF ~decodable
  THEN Raise("cannot identify image file")
  ELSE LET model_results == collect_results(names, outs)
       IN  IF model_results = <<>>
           THEN _error_response("All models failed")
           ELSE LET agg == aggregate(model_results)
                IN  [ prediction       |-> agg.final_prediction,
                      confidence       |-> round4(agg.final_confidence),
                      score            |-> round4(agg.final_confidence),
                      confidence_level |-> confidence_level(agg.final_confidence),
                      detection_method |-> agg.method,
                      models_used      |-> [i \in 1..Len(model_results) |-> model_results[i].model],
                      locals           |-> [ model_results    |-> model_results,
                                             final_confidence |-> agg.final_confidence ] ]

\* analyze_image without its `except Exception` clause
analyze_image_no_except(names, decodable, outs) ==
  IF names = <<>>
  THEN _error_response("No models loaded")
  ELSE analyze_image_try(names, decodable, outs)

\* DeepfakeModel.analyze_image: `except Exception` turns whatever the try block raises into
\* the error response
analyze_image(names, decodable, outs) ==
  IF names = <<>>
  THEN _error_response("No models loaded")
  ELSE LET r == analyze_image_try(names, decodable, outs)
       IN  IF Raised(r) THEN _error_response(r.exception) ELSE r

(***************************************************************************)
(* DeepfakeModel, src/models/deepfake.py (the copy of the root)            *)
(***************************************************************************)
\* DETECTOR_MODELS, by priority: the key and the "labels" table of each detector
DETECTOR_MODELS ==
  << [ key    |-> "dima806",
       labels |-> (S_0 :> "Real") @@ (S_1 :> "Fake") @@ (S_real :> "Real") @@ (S_fake :> "Fake") ],
     [ key    |-> "organika_sdxl",
       labels |-> (S_artificial :> "Fake") @@ (S_human :> "Real") ],
     [ key    |-> "umm_maybe",
       labels |-> (S_0 :> "Fake") @@ (S_1 :> "Real") @@ (S_artificial :> "Fake") @@ (S_real :> "Real") ] >>

\* __init__ without the `break`: every detector that loads is kept
RECURSIVE first_success_no_break(_, _)
first_success_no_break(configs, ok) ==
  IF configs = << >> THEN << >>
  ELSE (IF Head(configs).key \in ok THEN << Head(configs).key >> ELSE << >>)
       \o first_success_no_break(Tail(configs), ok)

\* the loading loop of __init__ (no model_name): the detectors are tried in the order of
\* DETECTOR_MODELS and the loop breaks at the first that loads; ok holds the keys of the
\* detectors whose load succeeds
RECURSIVE first_success(_, _)
first_success(configs, ok) ==
  IF configs = << >> THEN << >>
  ELSE IF Head(configs).key \in ok THEN << Head(configs).key >>
  ELSE first_success(Tail(configs), ok)

\* self.model_configs.get(model_key, {}).get("labels", {}): a custom model has no table
label_map_of(model_key) ==
  IF \E i \in 1..Len(DETECTOR_MODELS) : DETECTOR_MODELS[i].key = model_key
  THEN DETECTOR_MODELS[CHOOSE i \in 1..Len(DETECTOR_MODELS) : DETECTOR_MODELS[i].key = model_key].labels
  ELSE << >>

\* str(top_idx_val)
str_of_index(n) == IF n = 0 THEN S_0 ELSE IF n = 1 THEN S_1 ELSE S_2

\* _interpret_prediction with the keyword matching tried before the label table
_interpret_prediction_keywords_first(o, model_key) ==
  LET raw_label == IF o.labelled THEN o.label ELSE str_of_index(o.top_idx)
      label_map == label_map_of(model_key)
      raw_label_lower == lower(raw_label)
      prediction ==
        IF \E i \in 1..Len(fake_words_root) : substr_in(fake_words_root[i], raw_label_lower)
        THEN "Fake"
        ELSE IF \E i \in 1..Len(real_words_root) : substr_in(real_words_root[i], raw_label_lower)
        THEN "Real"
        ELSE IF raw_label \in DOMAIN label_map THEN label_map[raw_label]
        ELSE IF raw_label_lower \in DOMAIN label_map THEN label_map[raw_label_lower]
        ELSE IF str_of_index(o.top_idx) \in DOMAIN label_map THEN label_map[str_of_index(o.top_idx)]
        ELSE "Uncertain"
  IN  [ model       |-> model_key,
        prediction  |-> prediction,
        confidence  |-> o.top_prob,
        raw_label   |-> raw_label,
        label_index |-> o.top_idx,
        top_prob    |-> o.top_prob ]

\* DeepfakeModel._interpret_prediction
_interpret_prediction(o, model_key) ==
  LET raw_label == IF o.labelled THEN o.label ELSE str_of_index(o.top_idx)
      label_map == label_map_of(model_key)
      raw_label_lower == lower(raw_label)
      prediction ==
        IF raw_label \in DOMAIN label_map THEN label_map[raw_label]
        ELSE IF raw_label_lower \in DOMAIN label_map THEN label_map[raw_label_lower]
        ELSE IF str_of_index(o.top_idx) \in DOMAIN label_map THEN label_map[str_of_index(o.top_idx)]
        ELSE IF \E i \in 1..Len(fake_words_root) : substr_in(fake_words_root[i], raw_label_lower)
             THEN "Fake"
        ELSE IF \E i \in 1..Len(real_words_root) : substr_in(real_words_root[i], raw_label_lower)
             THEN "Real"
        ELSE "Uncertain"
  IN  [ model       |-> model_key,
        prediction  |-> prediction,
        confidence  |-> o.top_prob,
        raw_label   |-> raw_label,
        label_index |-> o.top_idx,
        top_prob    |-> o.top_prob ]

\* the loop over self.models of the root analyze_image
RECURSIVE collect_results_root(_, _)
collect_results_root(names, outs) ==
  IF names = <<>> THEN <<>>
  ELSE (IF outs[Head(names)].kind = "ok"
        THEN <<_interpret_prediction(outs[Head(names)], Head(names))>>
        ELSE <<>>)
       \o collect_results_root(Tail(names), outs)

\* the "Confidence level" step of the root analyze_image
confidence_level_root(confidence) ==
  IF confidence >= Pct(85) THEN "High"
  ELSE IF confidence >= Pct(70) THEN "Medium"
  ELSE "Low"

\* the outer try block of the root analyze_image
analyze_image_try_root(names, decodable, outs) ==
  IF ~decodable
  THEN Raise("cannot identify image file")
  ELSE LET results == collect_results_root(names, outs)
       IN  IF results = <<>>
           THEN _error_response("All models failed")
           ELSE LET final == results[1]
                IN  [ prediction       |-> final.prediction,
                      confidence       |-> round4(final.confidence),
                      score            |-> round4(final.confidence),
                      confidence_level |-> confidence_level_root(final.confidence),
                      models_used      |-> [i \in 1..Len(results) |-> results[i].model],
                      locals           |-> [ model_results    |-> results,
                                             final_confidence |-> final.confidence ] ]

\* DeepfakeModel.analyze_image of the root copy
analyze_image_root(names, decodable, outs) ==
  LET r == analyze_image_try_root(names, decodable, outs)
  IN  IF Raised(r) THEN _error_response(r.exception) ELSE r

(***************************************************************************)
(* analyze_video_frames (the two copies differ only in the image analysis) *)
(***************************************************************************)
\* frames[::sample_rate]: the positions, in `frames`, of the frames the loop goes through
slice_positions(frames_len, sample_rate) ==
  [k \in 1..((frames_len + sample_rate - 1) \div sample_rate) |-> (k - 1) * sample_rate]

\* the frame index without the factor sample_rate: the position in the sampled list
frame_index_in_sample(i, sample_rate) == i

\* result["frame_index"] = i * sample_rate
frame_index(i, sample_rate) == i * sample_rate

\* round(a / n, 4) for a sum a of numbers that are multiples of 1/10000
round4_of_quotient(a, n) ==
  LET u == One \div 10000
      t == a \div u
  IN  ((2 * t + n) \div (2 * n)) * u

\* overall_verdict with the test `fake_ratio >= 0.3`
overall_verdict_ge(fake_count, real_count, num_frames) ==
  IF num_frames > 0 /\ 10 * fake_count >= 3 * num_frames THEN "Fake"
  ELSE IF (num_frames = 0 \/ 10 * fake_count < num_frames) /\ real_count > 0 THEN "Real"
  ELSE "Uncertain"

\* the verdict of analyze_video_frames: fake_ratio = fake_count / num_frames (0.0 for no
\* frame) is compared with 0.3 and 0.1; fake_count / num_frames > 0.3 is
\* 10 * fake_count > 3 * num_frames
overall_verdict(fake_count, real_count, num_frames) ==
  IF num_frames > 0 /\ 10 * fake_count > 3 * num_frames THEN "Fake"
  ELSE IF (num_frames = 0 \/ 10 * fake_count < num_frames) /\ real_count > 0 THEN "Real"
  ELSE "Uncertain"

\* video_result with the mean taken over the frames that got a verdict, leaving out the
\* frames whose analysis returned the Error verdict
video_result_skip_errors(v) ==
  LET num_frames == Len(v.frame_indices)
      judged     == v.fake_count + v.real_count
  IN  [ prediction       |-> overall_verdict(v.fake_count, v.real_count, num_frames),
        confidence       |-> IF judged > 0 THEN round4_of_quotient(v.total_confidence, judged) ELSE 0,
        score            |-> IF judged > 0 THEN round4_of_quotient(v.total_confidence, judged) ELSE 0,
        fake_frame_ratio |-> IF judged > 0 THEN round4_of_quotient(v.fake_count * One, judged) ELSE 0,
        frames_analyzed  |-> num_frames,
        fake_frames      |-> v.fake_count,
        real_frames      |-> v.real_count,
        frame_indices    |-> v.frame_indices,
        detection_method |-> "video_analysis",
        locals           |-> [ total_confidence |-> v.total_confidence,
                               positions        |-> v.positions ] ]

\* the value analyze_video_frames returns once its loop has ended
video_result(v) ==
  LET num_frames == Len(v.frame_indices)
  IN  [ prediction       |-> overall_verdict(v.fake_count, v.real_count, num_frames),
        confidence       |-> IF num_frames > 0 THEN round4_of_quotient(v.total_confidence, num_frames) ELSE 0,
        score            |-> IF num_frames > 0 THEN round4_of_quotient(v.total_confidence, num_frames) ELSE 0,
        fake_frame_ratio |-> IF num_frames > 0 THEN round4_of_quotient(v.fake_count * One, num_frames) ELSE 0,
        frames_analyzed  |-> num_frames,
        fake_frames      |-> v.fake_count,
        real_frames      |-> v.real_count,
        frame_indices    |-> v.frame_indices,
        detection_method |-> "video_analysis",
        locals           |-> [ total_confidence |-> v.total_confidence,
                               positions        |-> v.positions ] ]

(***************************************************************************)
(* Bounds and input sets                                                   *)
(***************************************************************************)
\* the longest frame list handed to analyze_video_frames
MaxFrames == 20

\* the largest sample_rate
MaxSampleRate == 2

Texts ==
  { T_empty, T_blank, T_benign, T_scenario, T_hate, T_regret, T_kill, T_three, T_many, T_five,
    T_track }

\* 0.84996: a probability that round(x, 4) takes to 0.85
JustBelow85 == 84996 * (One \div 100000)

\* what a text classifier can do in a call: raise, return an empty list, or return the
\* (label, score) pairs of outputs[0], in the label vocabulary of that classifier
ClassifierOutcomes(name) ==
  { [kind |-> "raise"], [kind |-> "empty"],
    [kind |-> "ok", pairs |-> << [label |-> L_toxic, score |-> Pct(90)] >>] }
  \cup
  ( IF name = "toxic_bert"
    THEN { [kind |-> "ok", pairs |-> << [label |-> L_toxic, score |-> 0] >>],
           [kind |-> "ok", pairs |-> << [label |-> L_TOXIC, score |-> Pct(20)] >>],
           [kind |-> "ok", pairs |-> << [label |-> L_toxic, score |-> JustBelow85] >>] }
    ELSE IF name = "roberta_toxicity"
    THEN { [kind |-> "ok", pairs |-> << [label |-> L_LABEL_0, score |-> Pct(40)],
                                        [label |-> L_LABEL_1, score |-> Pct(60)] >>],
           [kind |-> "ok", pairs |-> << [label |-> L_non_toxic, score |-> Pct(75)],
                                        [label |-> L_toxic, score |-> Pct(25)] >>] }
    ELSE { [kind |-> "ok", pairs |-> << [label |-> L_neutral, score |-> Pct(30)],
                                        [label |-> L_insult, score |-> Pct(50)] >>],
           [kind |-> "ok", pairs |-> << [label |-> L_toxicity, score |-> Pct(12)] >>],
           [kind |-> "ok", pairs |-> << [label |-> L_toxicity, score |-> Pct(55)] >>] } )

\* the outcomes of the loaded classifiers in one call
CallOutcomes(names) ==
  { outs \in [Range(names) -> UNION { ClassifierOutcomes(n) : n \in Range(names) }] :
      \A n \in Range(names) : outs[n] \in ClassifierOutcomes(n) }

\* the scores handed to _classify_severity on its own: every twentieth, and the value
\* just below each threshold
SeverityScores ==
  { Pct(5 * k) : k \in 0..20 } \cup { Pct(p) - Dec4(1) : p \in {25, 45, 65, 85} }

ImageLabels == { S_Fake, S_REAL, S_artificial, S_human, S_natural, S_forged, S_cat, S_1 }

\* the top probabilities: the thresholds of the two confidence_level tables and values
\* around them
TopProbs == { Pct(55), Pct(60), Pct(70), Pct(82), Pct(85), JustBelow85, Pct(90) }

\* what one image detector can do in a call: raise, or return a top class (its index, the
\* label id2label gives it, if any) with its probability
ImageOutcomes ==
  { [kind |-> "raise"] }
  \cup { [kind |-> "ok", top_idx |-> i, labelled |-> TRUE, label |-> l, top_prob |-> p] :
           i \in {0, 2}, l \in ImageLabels, p \in TopProbs }
  \cup { [kind |-> "ok", top_idx |-> i, labelled |-> FALSE, label |-> << >>, top_prob |-> p] :
           i \in {1, 2}, p \in TopProbs }

\* the outcomes drawn for the frames of a video (with the top probability 0.8 the float
\* sums and quotients of the code round as the exact ones do, for every frame count here)
FrameOutcomes ==
  { [kind |-> "raise"],
    [kind |-> "ok", top_idx |-> 0, labelled |-> TRUE, label |-> S_REAL, top_prob |-> Pct(80)],
    [kind |-> "ok", top_idx |-> 1, labelled |-> TRUE, label |-> S_Fake, top_prob |-> Pct(80)] }

NoCall == [op |-> "none"]

NoResult == [none |-> TRUE]

NoVideo == [active |-> FALSE]

\* analytics_db as main.py creates it
NoScans == [total_scans |-> 0, threats_detected |-> 0]

(***************************************************************************)
(* Construction                                                            *)
(***************************************************************************)
\* HarassmentDetector.__init__: every classifier loads or fails to; keyword_fallback is set
\* when none loaded
InitText ==
  /\ tree \in {"ShieldX", "root"}
  /\ active_models \in { loaded_names(model_configs, s) : s \in LoadOrders(model_configs) }
  /\ keyword_fallback = (active_models = << >>)
  /\ image_models = << >>
  /\ load_ok = Range(active_models)
  /\ temp_files = 0
  /\ pc = "idle"
  /\ call = NoCall
  /\ result = NoResult
  /\ video = NoVideo
  /\ analytics_db = NoScans
  /\ requests = EmptyBag

\* the sets of detectors that can load when the root DeepfakeModel is constructed: some of
\* DETECTOR_MODELS (no model_name), or the model given as model_name, kept as "custom".
\* A construction in which nothing loads raises and leaves no object.
RootLoads ==
  ((SUBSET { DETECTOR_MODELS[i].key : i \in 1..Len(DETECTOR_MODELS) }) \ { {} })
    \cup { {"custom"} }

\* DeepfakeModel.__init__. ShieldX: the ensemble, every detector of models_to_load that
\* loaded, at least one. Root: the first detector of DETECTOR_MODELS that loaded, alone;
\* or, with model_name, the model "custom"
InitImage ==
  /\ tree \in {"ShieldX", "root"}
  /\ active_models = << >>
  /\ keyword_fallback = TRUE
  /\ \/ /\ tree = "ShieldX"
        /\ image_models \in
             { loaded_names(models_to_load, s) : s \in LoadOrders(models_to_load) } \ { << >> }
        /\ load_ok = Range(image_models)
     \/ /\ tree = "root"
        /\ load_ok \in RootLoads
        /\ image_models = IF load_ok = {"custom"} THEN << "custom" >>
                          ELSE first_success(DETECTOR_MODELS, load_ok)
  /\ temp_files = 0
  /\ pc = "idle"
  /\ call = NoCall
  /\ result = NoResult
  /\ video = NoVideo
  /\ analytics_db = NoScans
  /\ requests = EmptyBag

(***************************************************************************)
(* Operations                                                              *)
(***************************************************************************)
\* a call of HarassmentDetector.analyze_text
AnalyzeText ==
  /\ pc = "idle"
  /\ \E text \in Texts :
       \E outs \in CallOutcomes(active_models) :
         /\ call' = [op |-> "analyze_text", text |-> text, outs |-> outs]
         /\ result' = IF tree = "ShieldX"
                      THEN analyze_text(keyword_fallback, active_models, text, outs)
                      ELSE analyze_text_root(keyword_fallback, active_models, text, outs)
  /\ pc' = "done"
  /\ UNCHANGED <<tree, active_models, keyword_fallback, image_models, load_ok, temp_files, video,
               analytics_db, requests>>

\* two calls of HarassmentDetector._classify_severity
ClassifySeverity ==
  /\ pc = "idle"
  /\ \E c1 \in SeverityScores : \E c2 \in SeverityScores :
       /\ call' = [op |-> "_classify_severity", scores |-> <<c1, c2>>]
       /\ result' = [severities |-> <<_classify_severity(c1), _classify_severity(c2)>>]
  /\ pc' = "done"
  /\ UNCHANGED <<tree, active_models, keyword_fallback, image_models, load_ok, temp_files, video,
               analytics_db, requests>>

\* the image analysis of one copy or the other
analyze_image_of(t, names, decodable, outs) ==
  IF t = "ShieldX"
  THEN analyze_image(names, decodable, outs)
  ELSE analyze_image_root(names, decodable, outs)

\* a call of DeepfakeModel.analyze_image
AnalyzeImage ==
  /\ pc = "idle"
  /\ image_models # << >>
  /\ \E decodable \in BOOLEAN :
       \E outs \in [Range(image_models) -> ImageOutcomes] :
         /\ call' = [op |-> "analyze_image", decodable |-> decodable, outs |-> outs]
         /\ result' = analyze_image_of(tree, image_models, decodable, outs)
  /\ pc' = "done"
  /\ UNCHANGED <<tree, active_models, keyword_fallback, image_models, load_ok, temp_files, video,
               analytics_db, requests>>

\* a call of DeepfakeModel.analyze_video_frames(frames, sample_rate): the locals before the loop
VideoStart ==
  /\ pc = "idle"
  /\ image_models # << >>
  /\ \E n \in 0..MaxFrames : \E s \in 1..MaxSampleRate :
       /\ call' = [op |-> "analyze_video_frames", frames_len |-> n, sample_rate |-> s]
       /\ video' = [ active |-> TRUE, sampled |-> slice_positions(n, s),
                     positions |-> << >>, frame_indices |-> << >>,
                     frame_result |-> [unbound |-> TRUE],
                     fake_count |-> 0, real_count |-> 0, total_confidence |-> 0 ]
  /\ pc' = "video"
  /\ UNCHANGED <<tree, active_models, keyword_fallback, image_models, load_ok, temp_files, result,
               analytics_db, requests>>

\* one iteration of the loop over frames[::sample_rate]: the image analysis of the next
\* sampled frame (an RGB array, which _to_pil_image accepts) and the update of the counters;
\* frame_result holds the two entries of the loop's `result` that the loop reads
VideoFrame ==
  /\ pc = "video"
  /\ Len(video.positions) < Len(video.sampled)
  /\ \E outs \in [Range(image_models) -> FrameOutcomes] :
         LET i == Len(video.positions)
             r == analyze_image_of(tree, image_models, TRUE, outs)
         IN  video' = [ video EXCEPT
                          !.positions = Append(@, video.sampled[i + 1]),
                          !.frame_indices = Append(@, frame_index(i, call.sample_rate)),
                          !.frame_result = [ prediction |-> r.prediction,
                                             confidence |-> r.confidence ],
                          !.fake_count = IF r.prediction = "Fake" THEN @ + 1 ELSE @,
                          !.real_count = IF r.prediction = "Real" THEN @ + 1 ELSE @,
                          !.total_confidence = @ + r.confidence ]
  /\ UNCHANGED <<tree, active_models, keyword_fallback, image_models, load_ok, temp_files, pc, call, result,
               analytics_db, requests>>

\* the loop has ended: analyze_video_frames returns
VideoReturn ==
  /\ pc = "video"
  /\ Len(video.positions) = Len(video.sampled)
  /\ result' = video_result(video)
  /\ video' = NoVideo
  /\ pc' = "done"
  /\ UNCHANGED <<tree, active_models, keyword_fallback, image_models, load_ok, temp_files, call,
               analytics_db, requests>>

\* the caller has the result; the next call starts from here
Return ==
  /\ pc = "done"
  /\ pc' = "idle"
  /\ call' = NoCall
  /\ result' = NoResult
  /\ UNCHANGED <<tree, active_models, keyword_fallback, image_models, load_ok, temp_files, video,
               analytics_db, requests>>

NextText == AnalyzeText \/ ClassifySeverity \/ Return

NextImage == AnalyzeImage \/ VideoStart \/ VideoFrame \/ VideoReturn \/ Return

\* the harassment detector
SpecText == InitText /\ [][NextText]_vars

\* the deepfake detector
SpecImage == InitImage /\ [][NextImage]_vars

(***************************************************************************)
(* DetectionService.analyze_video (src/src/services/detection.py), which   *)
(* runs the root copy of DeepfakeModel                                     *)
(***************************************************************************)
\* the largest CAP_PROP_FRAME_COUNT of an uploaded video
MaxVideoLen == 4

\* the largest max_frames argument
MaxFramesArg == 2

\* the number of temporary files left behind after which no further upload is modelled
MaxTempFiles == 2

\* HTTPException(status_code, detail)
HTTPException(status_code, detail) == [status_code |-> status_code, detail |-> detail]

\* sample_interval = max(1, total_frames // max_frames)
sample_interval(total_frames, max_frames) == Max(1, total_frames \div max_frames)

\* the number of frames the extraction loop collects when cap.read() delivers `readable`
\* frames: the frames 0, interval, 2*interval, ... below `readable`, at most max_frames
frames_collected(readable, interval, max_frames) ==
  Min(max_frames, (readable + interval - 1) \div interval)

\* the loop of the root analyze_video_frames over frames[::1], from the locals v
RECURSIVE video_loop(_, _, _)
video_loop(names, frame_outs, v) ==
  IF frame_outs = << >> THEN v
  ELSE LET r == analyze_image_root(names, TRUE, Head(frame_outs))
       IN  video_loop(names, Tail(frame_outs),
                      [ v EXCEPT
                          !.positions = Append(@, v.sampled[Len(@) + 1]),
                          !.frame_indices = Append(@, frame_index(Len(@), 1)),
                          !.frame_result = [ prediction |-> r.prediction,
                                             confidence |-> r.confidence ],
                          !.fake_count = IF r.prediction = "Fake" THEN @ + 1 ELSE @,
                          !.real_count = IF r.prediction = "Real" THEN @ + 1 ELSE @,
                          !.total_confidence = @ + r.confidence ])

\* self.deepfake_model.analyze_video_frames(frames=frames, sample_rate=1)
analyze_video_frames(names, frame_outs) ==
  video_result(video_loop(names, frame_outs,
                          [ active |-> TRUE, sampled |-> slice_positions(Len(frame_outs), 1),
                            positions |-> << >>, frame_indices |-> << >>,
                            frame_result |-> [unbound |-> TRUE],
                            fake_count |-> 0, real_count |-> 0, total_confidence |-> 0 ]))

\* the try block of analyze_video from cv2.VideoCapture on: the dict it returns, or the
\* exception that leaves it
analyze_video_try(names, c) ==
  IF ~c.opened
  THEN Raise("Failed to open video file. Invalid format or corrupted file.")
  ELSE IF c.total_frames = 0
  THEN Raise("Video has no frames")
  ELSE LET interval == sample_interval(c.total_frames, c.max_frames)
           n        == frames_collected(c.readable, interval, c.max_frames)
       IN  IF n > 0 /\ ~c.convertible
           THEN Raise("cv2.error")
           ELSE IF n = 0
           THEN Raise("No frames could be extracted from video")
           ELSE [ deepfake   |-> analyze_video_frames(names, c.frame_outs)
                                   @@ [ total_frames |-> c.total_frames ],
                  harassment |-> "None",
                  status     |-> "success" ]

\* the `except Exception` clause of analyze_video
analyze_video_body(names, c) ==
  IF ~c.write_ok
  THEN HTTPException(500, "Error analyzing video")
  ELSE LET r == analyze_video_try(names, c)
       IN  IF Raised(r) THEN HTTPException(500, "Error analyzing video") ELSE r

(***************************************************************************)
(* DetectionService.analyze_text (src/src/services/detection.py)           *)
(***************************************************************************)
\* HarassmentDetector.detect_harassment([text])[0]: the root copy hands the analysis on
\* as it is, the ShieldX copy formats it into five scores
detect_harassment(t, analysis) ==
  IF t = "root" THEN analysis
  ELSE LET conf == dict_get(analysis, "confidence")
           cat  == IF "category" \in DOMAIN analysis THEN analysis.category ELSE ""
           sev  == IF "severity" \in DOMAIN analysis THEN analysis.severity ELSE "None"
       IN  [ TOXIC        |-> IF "is_harassment" \in DOMAIN analysis /\ analysis.is_harassment
                              THEN conf ELSE 0,
             SEVERE_TOXIC |-> IF sev \in {"critical", "high"} THEN conf ELSE 0,
             THREAT       |-> IF cat = "threat" THEN conf ELSE 0,
             OBSCENE      |-> IF cat = "harassment" THEN conf ELSE 0,
             INSULT       |-> IF cat = "harassment" THEN conf ELSE 0,
             _analysis    |-> analysis ]

\* the dict branch of the service's analyze_text: formatted_result, with its categories
\* in the order of the appends
service_format(text, harassment_result) ==
  LET toxic_score        == dict_get(harassment_result, "TOXIC")
      severe_toxic_score == dict_get(harassment_result, "SEVERE_TOXIC")
      threat_score       == dict_get(harassment_result, "THREAT")
      obscene_score      == dict_get(harassment_result, "OBSCENE")
      insult_score       == dict_get(harassment_result, "INSULT")
      has_intent_threat  == any_in(service_intent_triggers, lower(text))
      is_harassment      == \/ toxic_score > Pct(50)
                            \/ severe_toxic_score > Pct(30)
                            \/ threat_score > Pct(30)
                            \/ has_intent_threat
      top                == Max(toxic_score, Max(severe_toxic_score, threat_score))
      confidence         == IF is_harassment
                            THEN IF has_intent_threat THEN Max(Pct(75), top) ELSE top
                            ELSE IF toxic_score < Pct(30)
                                 THEN Min(One - toxic_score, Pct(15)) ELSE 0
      text_lower         == lower(text)
      scored             == (IF toxic_score > Pct(50) THEN << "toxic" >> ELSE << >>)
                              \o (IF severe_toxic_score > Pct(30) THEN << "severe_toxic" >> ELSE << >>)
                              \o (IF threat_score > Pct(30) THEN << "threat" >> ELSE << >>)
                              \o (IF obscene_score > Pct(50) THEN << "obscene" >> ELSE << >>)
                              \o (IF insult_score > Pct(50) THEN << "insult" >> ELSE << >>)
      intent             == (IF any_in(service_stalking_words, text_lower)
                             THEN << "stalking" >> ELSE << >>)
                              \o (IF any_in(service_threat_words, text_lower)
                                     /\ threat_score <= Pct(30)
                                  THEN << "threat" >> ELSE << >>)
                              \o (IF any_in(service_coercion_words, text_lower)
                                  THEN << "coercion" >> ELSE << >>)
      categories         == IF scored \o intent = << >> THEN << "safe" >> ELSE scored \o intent
  IN  [ is_harassment |-> is_harassment,
        confidence    |-> round4(confidence),
        raw_scores    |-> harassment_result,
        categories    |-> categories,
        text_length   |-> Len(text) ]

\* DetectionService.analyze_text of a healthy service, given the analysis that
\* HarassmentDetector.analyze_text makes of the text
service_analyze_text(t, text, analysis) ==
  IF is_blank(text)
  THEN [ deepfake   |-> "None",
         harassment |-> [ is_harassment |-> FALSE, confidence |-> 0, raw_scores |-> << >>,
                          categories |-> << "empty" >>, text_length |-> 0,
                          error |-> "Empty text provided" ],
         status     |-> "success" ]
  ELSE [ deepfake   |-> "None",
         harassment |-> service_format(text, detect_harassment(t, analysis)),
         status     |-> "success" ]

\* the uploads: whether tmp.write succeeds, whether OpenCV opens the file, the frame
\* count of its metadata, how many frames cap.read() delivers, whether cvtColor accepts
\* them, max_frames, and what the detector does on every collected frame
VideoUploads(names) ==
  { [write_ok |-> FALSE, opened |-> FALSE, total_frames |-> 0, readable |-> 0,
     convertible |-> FALSE, max_frames |-> MaxFramesArg, frame_outs |-> << >>],
    [write_ok |-> TRUE, opened |-> FALSE, total_frames |-> 0, readable |-> 0,
     convertible |-> FALSE, max_frames |-> MaxFramesArg, frame_outs |-> << >>] }
  \cup { [write_ok |-> TRUE, opened |-> TRUE, total_frames |-> t, readable |-> r,
          convertible |-> FALSE, max_frames |-> m, frame_outs |-> << >>] :
           t \in 0..MaxVideoLen, r \in 0..MaxVideoLen, m \in 1..MaxFramesArg }
  \cup UNION { { [write_ok |-> TRUE, opened |-> TRUE, total_frames |-> t, readable |-> r,
                  convertible |-> TRUE, max_frames |-> m, frame_outs |-> fo] :
                   fo \in [1..frames_collected(r, sample_interval(t, m), m)
                             -> [Range(names) -> FrameOutcomes]] } :
               t \in 1..MaxVideoLen, r \in 0..MaxVideoLen, m \in 1..MaxFramesArg }

\* DetectionService.__init__: the root DeepfakeModel and the root HarassmentDetector are
\* constructed (a construction that raises leaves no service object); the temporary
\* directory holds no file of the service
InitService ==
  /\ tree = "root"
  /\ active_models \in { loaded_names(model_configs, s) : s \in LoadOrders(model_configs) }
  /\ keyword_fallback = (active_models = << >>)
  /\ load_ok \in RootLoads
  /\ image_models = IF load_ok = {"custom"} THEN << "custom" >>
                    ELSE first_success(DETECTOR_MODELS, load_ok)
  /\ temp_files = 0
  /\ pc = "idle"
  /\ call = NoCall
  /\ result = NoResult
  /\ video = NoVideo
  /\ analytics_db = NoScans
  /\ requests = EmptyBag

\* analyze_video, lines 139-145: temp_path = None, then NamedTemporaryFile(delete=False)
\* creates the file, tmp.write(video_bytes) fills it or raises, and only after the write
\* temp_path = tmp.name
SvcVideoWrite ==
  /\ pc = "idle"
  /\ temp_files < MaxTempFiles
  /\ \E c \in VideoUploads(image_models) :
       call' = [ op |-> "analyze_video", upload |-> c, files_before |-> temp_files,
                 temp_path |-> IF c.write_ok THEN "tmp.name" ELSE "None" ]
  /\ temp_files' = temp_files + 1
  /\ pc' = "written"
  /\ UNCHANGED <<tree, active_models, keyword_fallback, image_models, load_ok, result, video,
               analytics_db, requests>>

\* analyze_video, lines 147-242: the rest of the try block, the except clause and the
\* finally clause, which removes the file when temp_path is set (os.remove of the file
\* the call wrote is taken to succeed)
SvcVideoFinish ==
  /\ pc = "written"
  /\ result' = analyze_video_body(image_models, call.upload)
  /\ temp_files' = IF call.temp_path # "None" THEN temp_files - 1 ELSE temp_files
  /\ pc' = "done"
  /\ UNCHANGED <<tree, active_models, keyword_fallback, image_models, load_ok, call, video,
               analytics_db, requests>>

\* DetectionService.analyze_text, lines 244-379: the blank check, the detector's
\* detect_harassment([text]), which is not called for a blank text, and the formatting
\* of its first element
SvcAnalyzeText ==
  /\ pc = "idle"
  /\ \E text \in Texts :
       \E outs \in CallOutcomes(active_models) :
         LET analysis == IF is_blank(text) THEN [ called |-> FALSE ]
                         ELSE IF tree = "ShieldX"
                         THEN analyze_text(keyword_fallback, active_models, text, outs)
                         ELSE analyze_text_root(keyword_fallback, active_models, text, outs)
         IN  /\ call' = [ op |-> "service_analyze_text", text |-> text, outs |-> outs,
                          analysis |-> analysis ]
             /\ result' = service_analyze_text(tree, text, analysis)
  /\ pc' = "done"
  /\ UNCHANGED <<tree, active_models, keyword_fallback, image_models, load_ok, temp_files, video,
               analytics_db, requests>>

NextService == SvcVideoWrite \/ SvcVideoFinish \/ SvcAnalyzeText \/ Return

\* the detection service under any sequence of video uploads and text analyses
SpecService == InitService /\ [][NextService]_vars
(***************************************************************************)
(* main.py: the handlers scan_text, scan_image and scan_video, which run   *)
(* as coroutines of one event loop, and the counters of analytics_db       *)
(***************************************************************************)
\* the number of requests the API handles at a time
MaxRequests == 2

\* total_scans beyond which no further request is modelled
MaxScans == 3

\* _service is None when create_detection_service raised at import (detection.py 455-461):
\* the async wrappers detect_harassment, detect_deepfake and detect_video_deepfake then
\* raise HTTPException(503)
service_unavailable ==
  HTTPException(503, "Detection service is not available. Please check service health.")

\* DetectionService.analyze_image of a healthy service on uploaded bytes: Image.open
\* raises or gives an image, which the detector analyses
service_analyze_image(names, openable, outs) ==
  IF ~openable
  THEN HTTPException(500, "Error analyzing image")
  ELSE [ deepfake   |-> analyze_image_root(names, TRUE, outs),
         harassment |-> "None",
         status     |-> "success" ]

\* prediction.lower() of the predictions the detector reports
prediction_lower(prediction) ==
  CASE prediction = "Fake" -> "fake"
    [] prediction = "Real" -> "real"
    [] prediction = "Uncertain" -> "uncertain"
    [] prediction = "Error" -> "error"
    [] OTHER -> "unknown"

\* scan_text from the return of the awaited detect_harassment on: what the handler
\* returns, or the HTTPException of its except clause
scan_text(detected) ==
  IF "status_code" \in DOMAIN detected
  THEN HTTPException(500, "Detection service error")
  ELSE LET harassment == detected.harassment
           confidence == harassment.confidence
           severity   == IF confidence >= Pct(90) THEN "critical"
                         ELSE IF confidence >= Pct(70) THEN "high"
                         ELSE IF confidence >= Pct(50) THEN "medium"
                         ELSE "low"
       IN  [ success |-> TRUE,
             data    |-> [ is_harassment |-> harassment.is_harassment,
                           confidence    |-> confidence,
                           severity      |-> severity,
                           categories    |-> harassment.categories ] ]

\* scan_image from the return of the awaited detect_deepfake on
scan_image(detected) ==
  IF "status_code" \in DOMAIN detected
  THEN HTTPException(500, "Deepfake service error")
  ELSE LET deepfake == detected.deepfake
       IN  [ success |-> TRUE,
             data    |-> [ prediction       |-> deepfake.prediction,
                           confidence       |-> deepfake.confidence,
                           confidence_level |-> IF "confidence_level" \in DOMAIN deepfake
                                                THEN deepfake.confidence_level ELSE "unknown" ] ]

\* scan_video from the return of the awaited detect_video_deepfake on
scan_video(detected) ==
  IF "status_code" \in DOMAIN detected
  THEN HTTPException(500, "Video analysis service error")
  ELSE LET deepfake == detected.deepfake
       IN  [ success |-> TRUE,
             data    |-> [ prediction       |-> deepfake.prediction,
                           confidence       |-> deepfake.confidence,
                           fake_frame_ratio |-> deepfake.fake_frame_ratio,
                           frames_analyzed  |-> deepfake.frames_analyzed,
                           total_frames     |-> deepfake.total_frames ] ]

\* whether the handler counts the scan as a threat: is_harassment of scan_text,
\* prediction.lower() == "fake" of scan_image and scan_video
is_threat(handler, response) ==
  IF handler = "scan_text" THEN response.data.is_harassment
  ELSE prediction_lower(response.data.prediction) = "fake"

\* the counting that skips the scans without a threat
count_scan_threats_only(db, threat) ==
  IF threat
  THEN [ total_scans |-> db.total_scans + 1, threats_detected |-> db.threats_detected + 1 ]
  ELSE db

\* analytics_db["total_scans"] += 1, and analytics_db["threats_detected"] += 1 for a threat
count_scan(db, threat) ==
  [ total_scans      |-> db.total_scans + 1,
    threats_detected |-> IF threat THEN db.threats_detected + 1 ELSE db.threats_detected ]

\* what scan_text can return or raise in the state of the service: without a service the
\* wrapper raises 503; with one, over every reply of the classifiers and the texts posted:
\* blank, harmless, a keyword the detector reports, and a text with triggers of the service
scan_text_outcomes ==
  IF image_models = << >>
  THEN { scan_text(service_unavailable) }
  ELSE { scan_text(service_analyze_text(
                     tree, text,
                     IF is_blank(text) THEN [ called |-> FALSE ]
                     ELSE analyze_text_root(keyword_fallback, active_models, text, outs))) :
           text \in { T_blank, T_benign, T_kill, T_scenario }, outs \in CallOutcomes(active_models) }

\* what scan_image can return or raise in the state of the service: Image.open accepts
\* the upload or not, and the detector raises or reports a real, a fake or an unknown class
scan_image_outcomes ==
  IF image_models = << >>
  THEN { scan_image(service_unavailable) }
  ELSE { scan_image(service_analyze_image(image_models, openable, outs)) :
           openable \in BOOLEAN,
           outs \in [Range(image_models) ->
                      FrameOutcomes
                        \cup { [kind |-> "ok", top_idx |-> 2, labelled |-> TRUE,
                                label |-> S_cat, top_prob |-> Pct(70)] }] }

\* what scan_video can return or raise in the state of the service, over the videos whose
\* temporary file can be written and of which OpenCV reads as many frames as the metadata
\* announce
scan_video_outcomes ==
  IF image_models = << >>
  THEN { scan_video(service_unavailable) }
  ELSE { scan_video(analyze_video_body(image_models, c)) :
           c \in { u \in VideoUploads(image_models) :
                     u.write_ok /\ u.readable = u.total_frames /\ u.max_frames = MaxFramesArg } }

\* a request whose handler is suspended in `contents = await file.read()`
Reading(handler) == [ handler |-> handler, at |-> "read" ]

\* a request whose handler has returned or raised: the status of the response and the
\* verdict it reports
Done(handler, response) ==
  [ handler     |-> handler,
    at          |-> "done",
    status_code |-> IF "status_code" \in DOMAIN response THEN response.status_code ELSE 200,
    verdict     |-> IF "status_code" \in DOMAIN response THEN "none"
                    ELSE IF handler = "scan_text"
                    THEN (IF response.data.is_harassment THEN "harassment" ELSE "safe")
                    ELSE response.data.prediction ]

\* the rest of a handler once its last await has returned, the request `before` giving
\* way to the finished one: the except clause, or the counters and the response; no other
\* coroutine runs in between
finish_scan(handler, before, response) ==
  /\ requests' = (requests (-) SetToBag(before)) (+) SetToBag({ Done(handler, response) })
  /\ analytics_db' = IF "status_code" \in DOMAIN response THEN analytics_db
                     ELSE count_scan(analytics_db, is_threat(handler, response))

\* the import of main.py: the service is created, or _service is None because the
\* DeepfakeModel could not be constructed; the counters are zero and no request is there.
\* The harassment detector of the service holds no classifier or the first one
InitApi ==
  /\ tree = "root"
  /\ load_ok \in RootLoads \cup { {} }
  /\ image_models = IF load_ok = {} THEN << >>
                    ELSE IF load_ok = {"custom"} THEN << "custom" >>
                    ELSE first_success(DETECTOR_MODELS, load_ok)
  /\ active_models \in IF load_ok = {} THEN { << >> } ELSE { << >>, << model_configs[1] >> }
  /\ keyword_fallback = (active_models = << >>)
  /\ temp_files = 0
  /\ pc = "idle"
  /\ call = NoCall
  /\ result = NoResult
  /\ video = NoVideo
  /\ analytics_db = NoScans
  /\ requests = EmptyBag

\* POST /scan_text: the handler has no await that suspends it (detect_harassment is a
\* coroutine that calls the service synchronously), so it runs from the request to the
\* response in one piece
ApiScanText ==
  /\ BagCardinality(requests) < MaxRequests
  /\ analytics_db.total_scans + BagCardinality(requests) < MaxScans
  /\ \E response \in scan_text_outcomes : finish_scan("scan_text", {}, response)
  /\ UNCHANGED <<tree, active_models, keyword_fallback, image_models, load_ok, temp_files,
               pc, call, result, video>>

\* POST /scan_image or /scan_video: the handler starts and is suspended in
\* `contents = await file.read()`
ApiUpload ==
  /\ BagCardinality(requests) < MaxRequests
  /\ analytics_db.total_scans + BagCardinality(requests) < MaxScans
  /\ \E handler \in {"scan_image", "scan_video"} :
       requests' = requests (+) SetToBag({ Reading(handler) })
  /\ UNCHANGED <<tree, active_models, keyword_fallback, image_models, load_ok, temp_files,
               pc, call, result, video, analytics_db>>

\* file.read() raises: the handler resumes in its except clause
ApiReadFails ==
  /\ \E handler \in {"scan_image", "scan_video"} :
       /\ BagIn(Reading(handler), requests)
       /\ requests' = (requests (-) SetToBag({ Reading(handler) }))
                        (+) SetToBag({ Done(handler, IF handler = "scan_image"
                                                     THEN scan_image(HTTPException(500, "read"))
                                                     ELSE scan_video(HTTPException(500, "read"))) })
  /\ UNCHANGED <<tree, active_models, keyword_fallback, image_models, load_ok, temp_files,
               pc, call, result, video, analytics_db>>

\* scan_image resumes with the contents: detect_deepfake, the counters, the response
ApiScanImage ==
  /\ BagIn(Reading("scan_image"), requests)
  /\ \E response \in scan_image_outcomes :
       finish_scan("scan_image", { Reading("scan_image") }, response)
  /\ UNCHANGED <<tree, active_models, keyword_fallback, image_models, load_ok, temp_files,
               pc, call, result, video>>

\* scan_video resumes with the contents: detect_video_deepfake, the counters, the response
ApiScanVideo ==
  /\ BagIn(Reading("scan_video"), requests)
  /\ \E response \in scan_video_outcomes :
       finish_scan("scan_video", { Reading("scan_video") }, response)
  /\ UNCHANGED <<tree, active_models, keyword_fallback, image_models, load_ok, temp_files,
               pc, call, result, video>>

\* the response of a finished handler is sent
ApiRespond ==
  /\ \E r \in BagToSet(requests) :
       /\ r.at = "done"
       /\ requests' = requests (-) SetToBag({ r })
  /\ UNCHANGED <<tree, active_models, keyword_fallback, image_models, load_ok, temp_files,
               pc, call, result, video, analytics_db>>

NextApi ==
  ApiScanText \/ ApiUpload \/ ApiReadFails \/ ApiScanImage \/ ApiScanVideo \/ ApiRespond

\* the API under any interleaving of scan requests
SpecApi == InitApi /\ [][NextApi]_vars

(***************************************************************************)
(* Properties                                                              *)
(***************************************************************************)
\* analyze_text has returned a verdict by the named method
TextReturned(method) ==
  /\ pc = "done"
  /\ call.op = "analyze_text"
  /\ "method" \in DOMAIN result
  /\ result.method = method

\* the intent phrases and the harassment keywords configured in the deployed copy
ConfiguredIntents == IF tree = "ShieldX" THEN intent_triggers ELSE intent_triggers_root

ConfiguredKeywords == IF tree = "ShieldX" THEN fallback_words ELSE fallback_words_root

\* how many entries of a list are substrings of the lowercased text
Hits(words, text) ==
  Cardinality({ i \in 1..Len(words) : substr_in(words[i], lower(text)) })

\* the critical keywords the specification names
SpecCriticalKeywords ==
  << <<"k","i","l","l">>, <<"d","i","e">>, <<"d","e","a","t","h">>, <<"m","u","r","d","e","r">>,
     <<"h","u","r","t">>, <<"d","e","s","t","r","o","y">>, <<"a","t","t","a","c","k">> >>

\* C1: in the classifier path, is_harassment holds exactly when the final avg_toxic is at
\* least 0.35, or an intent phrase is in the lowercased text, or one of the critical
\* keywords kill, die, death, murder, hurt, destroy, attack is; no other keyword list
\* forces a positive verdict.
C1_ThreeSignals ==
  TextReturned("contextual_ai") =>
    ( result.is_harassment <=>
        \/ result.locals.avg_toxic >= Pct(35)
        \/ Hits(ConfiguredIntents, call.text) > 0
        \/ Hits(SpecCriticalKeywords, call.text) > 0 )

SeverityRank(s) ==
  CASE s = "safe" -> 0 [] s = "low" -> 1 [] s = "medium" -> 2 [] s = "high" -> 3 [] s = "critical" -> 4

\* the bucket the specification gives a score
SpecSeverity(c) ==
  CASE c >= Pct(85) -> "critical"
    [] c >= Pct(65) /\ c < Pct(85) -> "high"
    [] c >= Pct(45) /\ c < Pct(65) -> "medium"
    [] c >= Pct(25) /\ c < Pct(45) -> "low"
    [] c < Pct(25) -> "safe"

\* C2: for every score in [0,1] the severity is the bucket of the thresholds 0.85, 0.65,
\* 0.45, 0.25, one of safe/low/medium/high/critical, and a larger score never gets a
\* lower severity.
C2_SeverityBuckets ==
  (pc = "done" /\ call.op = "_classify_severity") =>
    /\ \A i \in 1..2 :
         /\ result.severities[i] \in {"safe", "low", "medium", "high", "critical"}
         /\ result.severities[i] = SpecSeverity(call.scores[i])
    /\ call.scores[1] <= call.scores[2] =>
         SeverityRank(result.severities[1]) <= SeverityRank(result.severities[2])

\* C2 witness: the two scores around the threshold 0.85 get "high" and "critical"
C2_Witness ==
  /\ pc = "done"
  /\ call.op = "_classify_severity"
  /\ call.scores = << Pct(85) - Dec4(1), Pct(85) >>
  /\ result.severities = << "high", "critical" >>

\* C3: analyze_text answers by keyword fallback only when no classifier is loaded; with a
\* classifier loaded no call falls back, whatever the classifiers do in that call.
C3_FallbackOnlyWithoutClassifiers ==
  TextReturned("keyword_fallback") => active_models = << >>

\* the analysis of an image has returned a verdict computed from the models' results
ImageDecided ==
  /\ pc = "done"
  /\ call.op = "analyze_image"
  /\ "locals" \in DOMAIN result

\* the number of Fake votes and the sum of the confidences of the models that answered
FakeVotes(rs) == Cardinality({ i \in 1..Len(rs) : rs[i].prediction = "Fake" })

ConfidenceSum(rs) == SeqSum([i \in 1..Len(rs) |-> rs[i].confidence])

\* C4: with N >= 2 model verdicts the ensemble says Fake when the Fake votes exceed N/2,
\* Real when there is none, and otherwise Fake if the mean confidence is above 0.6 and
\* Uncertain if not; the final confidence is the mean confidence of the N models.
C4_EnsembleVote ==
  (ImageDecided /\ Len(result.locals.model_results) >= 2) =>
    LET rs == result.locals.model_results
        N  == Len(rs)
    IN  /\ result.prediction =
             ( IF 2 * FakeVotes(rs) > N THEN "Fake"
               ELSE IF FakeVotes(rs) = 0 THEN "Real"
               ELSE IF ConfidenceSum(rs) > N * Pct(60) THEN "Fake"
               ELSE "Uncertain" )
        /\ N * result.locals.final_confidence = ConfidenceSum(rs)
        /\ result.confidence = round4(result.locals.final_confidence)

\* C4 witness: two models, one Fake vote, a mean confidence of at most 0.6: Uncertain
C4_Witness ==
  /\ ImageDecided
  /\ Len(result.locals.model_results) = 2
  /\ FakeVotes(result.locals.model_results) = 1
  /\ ConfidenceSum(result.locals.model_results) <= 2 * Pct(60)
  /\ result.prediction = "Uncertain"

VideoReturned == pc = "done" /\ call.op = "analyze_video_frames"

\* C5: for n >= 1 analysed frames of which f are Fake, the video is Fake if f/n > 0.3, Real
\* if f/n < 0.1 and a frame was Real, and Uncertain otherwise (4 of 10: Fake; 1 of 20
\* with a Real frame: Real; 2 of 10: Uncertain).
C5_VideoVerdict ==
  (VideoReturned /\ result.frames_analyzed >= 1) =>
    LET n == result.frames_analyzed
        f == result.fake_frames
    IN  /\ result.prediction =
             ( IF 10 * f > 3 * n THEN "Fake"
               ELSE IF 10 * f < n /\ result.real_frames >= 1 THEN "Real"
               ELSE "Uncertain" )
        /\ (n = 10 /\ f = 4) => result.prediction = "Fake"
        /\ (n = 20 /\ f = 1 /\ result.real_frames >= 1) => result.prediction = "Real"
        /\ (n = 10 /\ f = 2) => result.prediction = "Uncertain"

\* C5 witness: 1 fake frame of 20, with a Real frame: Real
C5_Witness ==
  /\ VideoReturned
  /\ result.frames_analyzed = 20
  /\ result.fake_frames = 1
  /\ result.real_frames >= 1
  /\ result.prediction = "Real"

\* the fake-indicating and real-indicating keywords of the deployed copy
ConfiguredFakeKeywords == IF tree = "ShieldX" THEN fake_keywords ELSE fake_words_root

ConfiguredRealKeywords == IF tree = "ShieldX" THEN real_keywords ELSE real_words_root

\* the exact, lowercase and index lookups all miss the label table of the model (the
\* ShieldX copy has no label table)
MissesLabelTable(m) ==
  \/ tree = "ShieldX"
  \/ LET label_map == label_map_of(m.model)
     IN  /\ m.raw_label \notin DOMAIN label_map
         /\ lower(m.raw_label) \notin DOMAIN label_map
         /\ str_of_index(m.label_index) \notin DOMAIN label_map

\* C6: a raw label that misses the label table and holds none of the fake-indicating or
\* real-indicating keywords is Uncertain, and the confidence reported for it carries the
\* 0.5 penalty, never the full top probability.
C6_UnmappedLabelPenalty ==
  ImageDecided =>
    \A i \in 1..Len(result.locals.model_results) :
      LET m == result.locals.model_results[i]
      IN  ( /\ MissesLabelTable(m)
            /\ Hits(ConfiguredFakeKeywords, m.raw_label) = 0
            /\ Hits(ConfiguredRealKeywords, m.raw_label) = 0 )
          => /\ m.prediction = "Uncertain"
             /\ 2 * m.confidence = m.top_prob

ImageReturned == pc = "done" /\ call.op = "analyze_image"

\* the models whose inference did not raise in the call
Answered == { m \in Range(image_models) : call.outs[m].kind = "ok" }

\* C7: analyze_image never raises; a model whose inference fails is left out of the vote
\* and the others decide; when every model fails, or the image cannot be decoded, the
\* call returns prediction "Error", confidence 0.0 and an error message.
C7_AnalyzeImageNeverRaises ==
  ImageReturned =>
    /\ ~Raised(result)
    /\ (~call.decodable \/ Answered = {}) =>
         /\ result.prediction = "Error"
         /\ result.confidence = 0
         /\ "error" \in DOMAIN result
    /\ (call.decodable /\ Answered # {}) =>
         /\ result.prediction \in {"Fake", "Real", "Uncertain"}
         /\ Len(result.locals.model_results) = Cardinality(Answered)
         /\ Len(result.models_used) = Cardinality(Answered)

\* C7 witness: of two loaded models one raised, and the other decided
C7_Witness ==
  /\ ImageReturned
  /\ call.decodable
  /\ Len(image_models) = 2
  /\ Cardinality(Answered) = 1
  /\ result.prediction \in {"Fake", "Real", "Uncertain"}
  /\ Len(result.models_used) = 1

\* C8: the fallback score is min(0.95, base + keyword_boost + intent_boost), base 0.3 with
\* a harassment keyword matched and 0.0 without, keyword_boost min(0.4, 0.1 per keyword),
\* intent_boost min(0.3, 0.15 per intent phrase); so the confidence never exceeds 0.95.
C8_FallbackScore ==
  TextReturned("keyword_fallback") =>
    LET found         == Hits(ConfiguredKeywords, call.text)
        intent_found  == Hits(ConfiguredIntents, call.text)
        base          == IF found > 0 THEN Pct(30) ELSE 0
        keyword_boost == Min(Pct(40), Pct(10) * found)
        intent_boost  == Min(Pct(30), Pct(15) * intent_found)
    IN  /\ result.locals.score = Min(Pct(95), base + keyword_boost + intent_boost)
        /\ result.confidence <= Pct(95)

\* C9: in the keyword fallback is_harassment holds exactly when a configured harassment
\* keyword or a configured intent phrase is in the lowercased text; the text "I know
\* where you live and I will find you" without classifiers is harassment, by
\* keyword_fallback, with a confidence of at most 0.95.
C9_FallbackVerdict ==
  /\ TextReturned("keyword_fallback") =>
       ( result.is_harassment <=>
           \/ Hits(ConfiguredKeywords, call.text) > 0
           \/ Hits(ConfiguredIntents, call.text) > 0 )
  /\ (pc = "done" /\ call.op = "analyze_text" /\ call.text = T_scenario /\ active_models = << >>) =>
       /\ result.is_harassment
       /\ result.method = "keyword_fallback"
       /\ result.confidence <= Pct(95)

\* C10: with k intent phrases in the lowercased text the boost added to avg_toxic is
\* min(0.35, 0.15 k), 0 for k = 0, and the score after the boost is
\* min(1.0, avg_toxic + boost).
C10_IntentBoost ==
  TextReturned("contextual_ai") =>
    LET k     == Hits(ConfiguredIntents, call.text)
        boost == IF k = 0 THEN 0 ELSE Min(Pct(35), Pct(15) * k)
    IN  /\ boost <= Pct(35)
        /\ result.locals.boosted = Min(One, result.locals.mean + boost)
        /\ result.locals.boosted <= One

\* the classifiers that produced a score in the call: their reply is a non-empty list
Scored == { n \in Range(active_models) : call.outs[n].kind = "ok" }

\* C11: avg_toxic is multiplied by 0.9 exactly when at least two classifiers produced a
\* score and the largest score exceeds the smallest by more than 0.4, and is left as it is
\* otherwise; two classifiers scoring 0.2 and 0.9 on a text without intent phrase give
\* 0.55 * 0.9 = 0.495 and severity "medium".
C11_VarianceSmoothing ==
  TextReturned("contextual_ai") =>
    LET s       == result.locals.ai_scores
        applies == /\ Len(s) >= 2
                   /\ \E i \in 1..Len(s) : \E j \in 1..Len(s) : s[i] - s[j] > Pct(40)
    IN  /\ applies => 10 * result.locals.avg_toxic = 9 * result.locals.boosted
        /\ ~applies => result.locals.avg_toxic = result.locals.boosted
        /\ (s = << Pct(20), Pct(90) >> /\ Hits(ConfiguredIntents, call.text) = 0) =>
             /\ result.confidence = Dec4(4950)
             /\ result.severity = "medium"

\* C11 witness: the scores 0.2 and 0.9 on a text without intent phrase: 0.495, "medium"
C11_Witness ==
  /\ TextReturned("contextual_ai")
  /\ result.locals.ai_scores = << Pct(20), Pct(90) >>
  /\ Hits(ConfiguredIntents, call.text) = 0
  /\ result.locals.boosted = Pct(55)
  /\ result.confidence = Dec4(4950)
  /\ result.severity = "medium"

TextCall == pc = "done" /\ call.op = "analyze_text"

\* C12: analyze_text of an empty or whitespace-only text returns is_harassment false,
\* confidence 0.0, severity "safe", category "empty", method "none", and calls no
\* classifier and searches no keyword.
C12_EmptyText ==
  (TextCall /\ is_blank(call.text)) =>
    /\ {"is_harassment", "confidence", "severity", "category", "method"} \subseteq DOMAIN result
    /\ result.is_harassment = FALSE
    /\ result.confidence = 0
    /\ result.severity = "safe"
    /\ result.category = "empty"
    /\ result.method = "none"
    /\ result.trace.invoked = << >>
    /\ ~result.trace.scanned

\* the score the deployed copy extracts from the reply of classifier n
ScoreOf(n) ==
  IF tree = "ShieldX"
  THEN _extract_toxic_score(label_scores_of(call.outs[n].pairs))
  ELSE toxic_score_root(label_scores_of(call.outs[n].pairs))

\* C13: a call of analyze_text on a non-blank text calls every loaded classifier; one that
\* raises is skipped and the others still count; avg_toxic before amplification is the
\* plain mean of the scores of exactly the classifiers that produced one.
C13_SkipFailedClassifiers ==
  (TextCall /\ ~is_blank(call.text) /\ active_models # << >>) =>
    /\ result.trace.invoked = active_models
    /\ Scored # {} =>
         LET s == result.locals.ai_scores
         IN  /\ result.method = "contextual_ai"
             /\ Len(s) = Cardinality(Scored)
             /\ \A i \in 1..Len(active_models) :
                  active_models[i] \in Scored =>
                    s[Cardinality({ j \in 1..i : active_models[j] \in Scored })]
                      = ScoreOf(active_models[i])
             /\ Len(s) * result.locals.mean = SeqSum(s)

\* C13 witness: of three loaded classifiers the first raised and the other two were
\* called and averaged
C13_Witness ==
  /\ TextCall
  /\ Len(active_models) = 3
  /\ call.outs[active_models[1]].kind = "raise"
  /\ call.outs[active_models[2]].kind = "ok"
  /\ call.outs[active_models[3]].kind = "ok"
  /\ result.method = "contextual_ai"
  /\ Len(result.locals.ai_scores) = 2
  /\ 2 * result.locals.mean = result.locals.ai_scores[1] + result.locals.ai_scores[2]

\* the Medium threshold the deployed aggregator is documented with: 0.6 for the ensemble
\* (ShieldX copy), 0.7 for the first-success aggregator (root copy)
SpecMediumThreshold == IF tree = "ShieldX" THEN Pct(60) ELSE Pct(70)

\* C14: the confidence_level of an image verdict is "High" when the final confidence is
\* >= 0.85, "Medium" when it is below 0.85 and >= 0.7 (ensemble: >= 0.6), "Low" otherwise;
\* the High threshold is 0.85 in both aggregators.
C14_ConfidenceLevel ==
  ImageDecided =>
    LET c == result.locals.final_confidence
    IN  result.confidence_level =
          IF c >= Pct(85) THEN "High"
          ELSE IF c >= SpecMediumThreshold THEN "Medium"
          ELSE "Low"

\* the detectors of the first-success strategy, in priority order
Priority == [i \in 1..Len(DETECTOR_MODELS) |-> DETECTOR_MODELS[i].key]

\* the root copy was constructed without model_name: the first-success strategy
FirstSuccess == tree = "root" /\ load_ok # {"custom"}

\* C15: the first-success strategy tries dima806, organika_sdxl, umm_maybe in this order
\* and keeps the first that loads: the model in use is a lower-priority one if and only if
\* every model of higher priority failed to load, and every verdict computed from a
\* model's answer comes from exactly that one model.
C15_FirstSuccess ==
  FirstSuccess =>
    /\ Priority = << "dima806", "organika_sdxl", "umm_maybe" >>
    /\ Len(image_models) = 1
    /\ \A i \in 1..Len(Priority) :
         image_models[1] = Priority[i]
           <=> (Priority[i] \in load_ok /\ \A j \in 1..(i - 1) : Priority[j] \notin load_ok)
    /\ ImageDecided =>
         /\ result.models_used = image_models
         /\ Len(result.locals.model_results) = 1
         /\ result.prediction = result.locals.model_results[1].prediction
         /\ result.locals.final_confidence = result.locals.model_results[1].confidence

\* C15 witness: dima806 failed to load, organika_sdxl and umm_maybe would both load, and
\* a verdict was computed by organika_sdxl alone
C15_Witness ==
  /\ FirstSuccess
  /\ load_ok = {"organika_sdxl", "umm_maybe"}
  /\ image_models = << "organika_sdxl" >>
  /\ ImageDecided
  /\ result.models_used = << "organika_sdxl" >>

\* C16: when analyze_video has returned or raised, the temporary file the call created no
\* longer exists: the temporary directory holds as many files as before the call.
C16_TempFileRemoved ==
  (pc = "done" /\ call.op = "analyze_video") => temp_files = call.files_before

\* the distance of two numbers
Dist(a, b) == IF a >= b THEN a - b ELSE b - a

\* x is a number with four decimals
FourDecimals(x) == x % Dec4(1) = 0

\* C17 as stated: fake_frame_ratio equals fake_frames / frames_analyzed exactly, and the
\* video confidence equals the mean of the per-frame confidences over all analysed frames.
C17_ExactRatioAndMean ==
  (VideoReturned /\ result.frames_analyzed >= 1) =>
    /\ result.fake_frame_ratio * result.frames_analyzed = result.fake_frames * One
    /\ result.confidence * result.frames_analyzed = result.locals.total_confidence

\* C17 amended: fake_frame_ratio is fake_frames / frames_analyzed rounded to four decimals
\* and the video confidence is the mean of the per-frame confidences over all analysed
\* frames (a frame with the Error verdict counts with confidence 0.0) rounded to four
\* decimals: each is a four-decimal number at most 0.00005 away from the quotient; both
\* are 0.0 when no frame was analysed.
C17_RoundedRatioAndMean ==
  VideoReturned =>
    LET n == result.frames_analyzed
    IN  /\ result.locals.total_confidence
             = (result.fake_frames + result.real_frames) * Pct(80)
        /\ FourDecimals(result.fake_frame_ratio)
        /\ FourDecimals(result.confidence)
        /\ 2 * Dist(n * result.fake_frame_ratio, result.fake_frames * One) <= n * Dec4(1)
        /\ 2 * Dist(n * result.confidence, result.locals.total_confidence) <= n * Dec4(1)
        /\ n = 0 => (result.fake_frame_ratio = 0 /\ result.confidence = 0)

\* C17 witness: three frames, one Fake, one Real, one Error: ratio 0.3333, confidence
\* round(1.6 / 3, 4) = 0.5333
C17_Witness ==
  /\ VideoReturned
  /\ result.frames_analyzed = 3
  /\ result.fake_frames = 1
  /\ result.real_frames = 1
  /\ result.fake_frame_ratio = Dec4(3333)
  /\ result.confidence = Dec4(5333)

\* C18: the confidence of every result of analyze_text, analyze_image and
\* analyze_video_frames, the fallback, empty-input and Error results included, is a
\* number between 0 and 1.
C18_ConfidenceInUnitInterval ==
  (pc = "done" /\ call.op \in {"analyze_text", "analyze_image", "analyze_video_frames"}) =>
    /\ "confidence" \in DOMAIN result
    /\ result.confidence >= 0
    /\ result.confidence <= One

\* the category-keyword table of the deployed copy
ConfiguredCategories == IF tree = "ShieldX" THEN category_map ELSE category_map_root

\* C19: the category of a text verdict is the first category, in the table order threat,
\* stalking, manipulation, harassment, coercion, among those with the largest number of
\* keywords present in the lowercased text, and "general" when no keyword is present.
C19_CategoryByMostMatches ==
  (TextCall /\ ~is_blank(call.text)) =>
    LET cm       == ConfiguredCategories
        count(i) == Hits(cm[i].keywords, call.text)
    IN  /\ [i \in 1..Len(cm) |-> cm[i].name]
             = << "threat", "stalking", "manipulation", "harassment", "coercion" >>
        /\ "category" \in DOMAIN result
        /\ result.category # ""
        /\ IF \A i \in 1..Len(cm) : count(i) = 0
           THEN result.category = "general"
           ELSE \E i \in 1..Len(cm) :
                  /\ result.category = cm[i].name
                  /\ \A j \in 1..Len(cm) : count(j) <= count(i)
                  /\ \A j \in 1..(i - 1) : count(j) < count(i)

\* the confidence_level bucket of a confidence, with the High and Medium thresholds of the
\* deployed aggregator
LevelOf(c) ==
  IF c >= (IF tree = "ShieldX" THEN Pct(80) ELSE Pct(85)) THEN "High"
  ELSE IF c >= SpecMediumThreshold THEN "Medium"
  ELSE "Low"

\* C20: the severity of a text result is the severity bucket of the confidence reported
\* in the same result, and the confidence_level of an image verdict is the bucket of the
\* confidence reported in that verdict.
C20_BucketOfReportedConfidence ==
  /\ (TextCall /\ "severity" \in DOMAIN result) =>
       result.severity = SpecSeverity(result.confidence)
  /\ ImageDecided =>
       result.confidence_level = LevelOf(result.confidence)

\* the intent boost the deployed copy adds for k matched intent phrases
CodeBoost(k) ==
  IF k = 0 THEN 0
  ELSE IF tree = "ShieldX" THEN Min(Pct(35), Pct(15) * k)
  ELSE Pct(35)

\* variance smoothing applies to the scores s: at least two, spread above 0.4
SmoothingApplies(s) ==
  /\ Len(s) >= 2
  /\ \E i \in 1..Len(s) : \E j \in 1..Len(s) : s[i] - s[j] > Pct(40)

\* C21: when variance smoothing applies, the final score is min(1.0, avg + boost) * 0.9,
\* the boost added first and the factor 0.9 applied to the boosted score; the reported
\* confidence is then at most 0.9.
C21_AmplifyThenSmooth ==
  (TextReturned("contextual_ai") /\ SmoothingApplies(result.locals.ai_scores)) =>
    LET b == CodeBoost(Hits(ConfiguredIntents, call.text))
    IN  /\ 10 * result.locals.avg_toxic = 9 * Min(One, result.locals.mean + b)
        /\ result.confidence <= Pct(90)

\* C21 witness: smoothing and a boost both applied, on scores where the other order,
\* min(1.0, avg * 0.9 + boost), gives another number
C21_Witness ==
  /\ TextReturned("contextual_ai")
  /\ SmoothingApplies(result.locals.ai_scores)
  /\ Hits(ConfiguredIntents, call.text) > 0
  /\ LET b == CodeBoost(Hits(ConfiguredIntents, call.text))
     IN  /\ 10 * result.locals.avg_toxic = 9 * Min(One, result.locals.mean + b)
         /\ result.locals.avg_toxic # Min(One, (9 * result.locals.mean) \div 10 + b)

\* the toxic probability the specification reads from a label -> score mapping: the first
\* present key of toxic, label_1, toxicity; else 1 - non_toxic; else 1 - label_0; else the
\* mean of the scores
SpecToxicScore(label_scores) ==
  LET direct     == << L_toxic, L_label_1, L_toxicity >>
      complement == << L_non_toxic, L_label_0 >>
      present(q) == { i \in 1..Len(q) : q[i] \in DOMAIN label_scores }
      first(q)   == CHOOSE i \in present(q) : \A j \in present(q) : i <= j
  IN  IF present(direct) # {} THEN label_scores[direct[first(direct)]]
      ELSE IF present(complement) # {} THEN One - label_scores[complement[first(complement)]]
      ELSE SumValues(label_scores, DOMAIN label_scores) \div Cardinality(DOMAIN label_scores)

\* C22: the score taken from each classifier's reply follows the precedence toxic,
\* label_1, toxicity, 1 - non_toxic, 1 - label_0, mean of all scores; an earlier key wins
\* also when its score is 0.
C22_ToxicScorePrecedence ==
  TextReturned("contextual_ai") =>
    \A i \in 1..Len(active_models) :
      active_models[i] \in Scored =>
        result.locals.ai_scores[Cardinality({ j \in 1..i : active_models[j] \in Scored })]
          = SpecToxicScore(label_scores_of(call.outs[active_models[i]].pairs))

\* the label table the deployed copy holds for the model of a result (the ShieldX copy
\* holds none) and the keys the normalizer looks up in it, in order: the raw label, its
\* lowercase form, the string of the top class index
ConfiguredLabelTable(m) == IF tree = "ShieldX" THEN << >> ELSE label_map_of(m.model)

LookupKeys(m) ==
  IF tree = "ShieldX" THEN << m.raw_label, lower(m.raw_label) >>
  ELSE << m.raw_label, lower(m.raw_label), str_of_index(m.label_index) >>

\* the verdict of keyword matching on a raw label
KeywordVerdict(raw_label) ==
  IF Hits(ConfiguredFakeKeywords, raw_label) > 0 THEN "Fake"
  ELSE IF Hits(ConfiguredRealKeywords, raw_label) > 0 THEN "Real"
  ELSE "Uncertain"

\* C23: the category of a raw label is the table entry of the first of raw label,
\* lowercase label, string of the top index that the label table holds, and the verdict of
\* keyword matching only when the table holds none of them.
C23_NormalizerPrecedence ==
  ImageDecided =>
    \A i \in 1..Len(result.locals.model_results) :
      LET m     == result.locals.model_results[i]
          table == ConfiguredLabelTable(m)
          keys  == LookupKeys(m)
          found == { k \in 1..Len(keys) : keys[k] \in DOMAIN table }
      IN  IF found # {}
          THEN m.prediction = table[keys[CHOOSE k \in found : \A l \in found : k <= l]]
          ELSE m.prediction = KeywordVerdict(m.raw_label)

\* C23 witness: for dima806 the raw label "artificial" of class 0 is in the table neither
\* as it is nor lowercased, the index entry "0" says Real, and the keyword "artificial",
\* which says Fake, is not consulted
C23_Witness ==
  /\ ImageDecided
  /\ tree = "root"
  /\ image_models = << "dima806" >>
  /\ result.locals.model_results[1].raw_label = S_artificial
  /\ result.locals.model_results[1].label_index = 0
  /\ KeywordVerdict(S_artificial) = "Fake"
  /\ result.locals.model_results[1].prediction = "Real"

\* C24: a raw label that misses the label table and holds a fake-indicating keyword (such
\* as "artificial") is Fake and its confidence is the top probability itself; a confidence
\* other than the top probability is only ever reported for a label without any keyword.
C24_KeywordMatchKeepsConfidence ==
  ImageDecided =>
    \A i \in 1..Len(result.locals.model_results) :
      LET m == result.locals.model_results[i]
      IN  /\ (MissesLabelTable(m) /\ Hits(ConfiguredFakeKeywords, m.raw_label) > 0) =>
               /\ m.prediction = "Fake"
               /\ m.confidence = m.top_prob
          /\ m.confidence # m.top_prob =>
               /\ Hits(ConfiguredFakeKeywords, m.raw_label) = 0
               /\ Hits(ConfiguredRealKeywords, m.raw_label) = 0

\* C24 witness: the ensemble copy, which holds no label table, got the raw label
\* "artificial" with probability 0.9 and reports Fake with confidence 0.9
C24_Witness ==
  /\ ImageDecided
  /\ tree = "ShieldX"
  /\ \E i \in 1..Len(result.locals.model_results) :
       LET m == result.locals.model_results[i]
       IN  /\ m.raw_label = S_artificial
           /\ m.top_prob = Pct(90)
           /\ m.prediction = "Fake"
           /\ m.confidence = Pct(90)

\* the orders in which the elements of a sequence without repetition can be arranged
Orders(s) ==
  { q \in [1..Len(s) -> Range(s)] : \A x \in Range(s) : \E i \in 1..Len(s) : q[i] = x }

\* what the deployed analyze_text returns for the text and the classifier replies of the
\* call when the loaded classifiers are invoked in the order p
TextResultInOrder(p) ==
  IF tree = "ShieldX"
  THEN analyze_text(keyword_fallback, p, call.text, call.outs)
  ELSE analyze_text_root(keyword_fallback, p, call.text, call.outs)

\* what the ensemble analyze_image returns for the image and the model outputs of the call
\* when the loaded models are invoked in the order p
ImageResultInOrder(p) == analyze_image_of(tree, p, call.decodable, call.outs)

\* C25: whatever the order in which the loaded classifiers are invoked, analyze_text
\* returns the same is_harassment, confidence, severity and category for the same text
\* and the same classifier replies, and the ensemble analyze_image the same prediction,
\* confidence and confidence_level.
C25_OrderIndependent ==
  /\ (TextCall /\ ~is_blank(call.text)) =>
       \A p \in Orders(active_models) :
         LET r == TextResultInOrder(p)
         IN  /\ r.is_harassment = result.is_harassment
             /\ r.confidence = result.confidence
             /\ r.severity = result.severity
             /\ r.category = result.category
  /\ (ImageReturned /\ tree = "ShieldX") =>
       \A p \in Orders(image_models) :
         LET r == ImageResultInOrder(p)
         IN  /\ r.prediction = result.prediction
             /\ r.confidence = result.confidence
             /\ ImageDecided => r.confidence_level = result.confidence_level

\* C26: analyze_video_frames(frames, s) analyses exactly the frames at the positions
\* 0, s, 2s, ... below len(frames), in increasing order, one analysis each; the frame_index
\* of every frame result is the position of the frame it was computed from, and
\* frames_analyzed is the number of sampled frames.
C26_SampledFrameIndices ==
  VideoReturned =>
    LET n         == call.frames_len
        s         == call.sample_rate
        analysed  == result.locals.positions
        multiples == { j \in 0..(n - 1) : j % s = 0 }
    IN  /\ { analysed[k] : k \in 1..Len(analysed) } = multiples
        /\ Len(analysed) = Cardinality(multiples)
        /\ \A k \in 1..(Len(analysed) - 1) : analysed[k] < analysed[k + 1]
        /\ result.frame_indices = analysed
        /\ result.frames_analyzed = Cardinality(multiples)

\* C26 witness: five frames sampled at rate 2: the frames 0, 2 and 4
C26_Witness ==
  /\ VideoReturned
  /\ call.frames_len = 5
  /\ call.sample_rate = 2
  /\ result.frame_indices = << 0, 2, 4 >>
  /\ result.frames_analyzed = 3

\* a text analysis of the service has returned
ServiceTextReturned == pc = "done" /\ call.op = "service_analyze_text"

\* C27: the service layer never downgrades a positive detector verdict: for every
\* non-empty text that HarassmentDetector.analyze_text reports with is_harassment = true,
\* DetectionService.analyze_text reports harassment.is_harassment = true
C27_NoDowngrade ==
  (ServiceTextReturned /\ ~is_blank(call.text) /\ call.analysis.is_harassment)
    => result.harassment.is_harassment

\* C28: every result of HarassmentDetector.analyze_text with is_harassment = true has a
\* severity other than 'safe', in the classifier path and in the keyword-fallback path
C28_PositiveIsNotSafe ==
  (TextCall /\ "is_harassment" \in DOMAIN result /\ result.is_harassment)
    => result.severity # "safe"

\* what analyze_video_frames returns: a verdict, never the Error sentinel or an exception;
\* every sampled frame counted, at most that many of them fake or real; no frame gives
\* 'Uncertain', 0.0 and 0.0
C29_ReturnedVerdict ==
  VideoReturned =>
    /\ ~Raised(result)
    /\ result.prediction \in {"Fake", "Real", "Uncertain"}
    /\ result.frames_analyzed = Len(slice_positions(call.frames_len, call.sample_rate))
    /\ result.fake_frames + result.real_frames <= result.frames_analyzed
    /\ call.frames_len = 0 =>
         /\ result.prediction = "Uncertain"
         /\ result.confidence = 0
         /\ result.fake_frame_ratio = 0

\* an iteration of the loop whose image analysis yields the Error sentinel: the frame is
\* counted, fake_count and real_count stay, and 0.0 is added to total_confidence
C29_ErrorFrameStep ==
  (pc = "video" /\ pc' = "video" /\ video'.frame_result.prediction = "Error")
    => /\ Len(video'.frame_indices) = Len(video.frame_indices) + 1
       /\ video'.frame_result.confidence = 0
       /\ video'.fake_count = video.fake_count
       /\ video'.real_count = video.real_count
       /\ video'.total_confidence = video.total_confidence

\* C29: analyze_video_frames with sample_rate >= 1 always returns a prediction in
\* {Fake, Real, Uncertain}, never 'Error' or an exception: a frame whose image analysis
\* yields the Error sentinel is counted in frames_analyzed as neither fake nor real and
\* contributes confidence 0.0, fake_frames + real_frames <= frames_analyzed always holds,
\* and an empty frame sequence yields 'Uncertain' with confidence 0.0 and
\* fake_frame_ratio 0.0
C29_VideoNeverErrors == [] C29_ReturnedVerdict /\ [][C29_ErrorFrameStep]_vars

\* a video of several frames has returned a verdict although the analysis of some frame
\* gave the Error sentinel: fewer frames are fake or real than were analyzed, and the mean
\* confidence is below that of a judged frame
C29_Witness ==
  /\ VideoReturned
  /\ result.frames_analyzed >= 3
  /\ result.fake_frames >= 1
  /\ result.real_frames >= 1
  /\ result.fake_frames + result.real_frames < result.frames_analyzed
  /\ result.confidence < Pct(80)
  /\ result.confidence > 0

\* the counters are in range
C30_CountersInRange ==
  /\ 0 <= analytics_db.threats_detected
  /\ analytics_db.threats_detected <= analytics_db.total_scans

\* a step of the API: at most one handler finishes in it; a handler that returned a
\* response adds one to total_scans, and one to threats_detected when its verdict is
\* harassment or Fake; a handler that raised, and a step in which no handler finishes,
\* leave both counters as they are
C30_CountedOnce ==
  LET finished == { r \in BagToSet(requests') :
                      r.at = "done" /\ CopiesIn(r, requests') > CopiesIn(r, requests) }
  IN  /\ Cardinality(finished) <= 1
      /\ finished = {} => analytics_db' = analytics_db
      /\ \A r \in finished :
           /\ CopiesIn(r, requests') = CopiesIn(r, requests) + 1
           /\ analytics_db'.total_scans =
                analytics_db.total_scans + (IF r.status_code = 200 THEN 1 ELSE 0)
           /\ analytics_db'.threats_detected =
                analytics_db.threats_detected
                  + (IF r.status_code = 200 /\ r.verdict \in {"harassment", "Fake"} THEN 1 ELSE 0)

\* C30: under any interleaving of concurrent scan_text, scan_image and scan_video
\* requests the analytics counters satisfy 0 <= threats_detected <= total_scans;
\* total_scans is incremented by exactly one per scan that completes detection,
\* threats_detected by at most one for that scan (only when the verdict is harassment or
\* Fake), and a scan whose detection raises leaves both counters unchanged
C30_AnalyticsCounters == [] C30_CountersInRange /\ [][C30_CountedOnce]_vars

\* while a video request is suspended in its read, two other scans have been counted, one
\* of them a threat, and the handler of the second one has just returned a clean verdict
C30_Witness ==
  /\ BagIn(Reading("scan_video"), requests)
  /\ \E r \in BagToSet(requests) :
       r.at = "done" /\ r.status_code = 200 /\ r.verdict \in {"safe", "Real", "Uncertain", "Error"}
  /\ analytics_db.total_scans = 2
  /\ analytics_db.threats_detected = 1

====
